---- MODULE Spec2Model ----
(***************************************************************************)
(* Verification model of the oneiro-scope astrology core:                  *)
(*   backend/services/astrology/{ephemeris,natal_chart,transits,service}.py*)
(*                                                                         *)
(* Angles are Python floats in degrees; the model keeps them in fixed      *)
(* point, Scale units per degree.  Daily speeds are kept in SpeedScale     *)
(* units per degree so that the slowest mean motion is still non-zero.     *)
(* Optional[T] values are sequences of length <= 1: None is <<>> and a     *)
(* present value x is <<x>>.                                               *)
(***************************************************************************)
EXTENDS Integers, Sequences, FiniteSets, TLC

\* ------------------------------------------------------------------------
\* Fixed point
\* ------------------------------------------------------------------------
Scale == 100

SpeedScale == 10000

Circle == 360 * Scale

SignWidth == 30 * Scale

None == <<>>

Some(x) == <<x>>

Abs(x) == IF x < 0 THEN -x ELSE x

Max2(a, b) == IF a >= b THEN a ELSE b

Min2(a, b) == IF a <= b THEN a ELSE b

\* ------------------------------------------------------------------------
\* schemas.py enums (iteration order of the Enum classes)
\* ------------------------------------------------------------------------
Planet == << "sun", "moon", "mercury", "venus", "mars", "jupiter", "saturn",
             "uranus", "neptune", "pluto", "north_node", "south_node", "chiron" >>

PlanetSet == { Planet[i] : i \in 1..Len(Planet) }

ZODIAC_SIGNS == << "aries", "taurus", "gemini", "cancer", "leo", "virgo",
                   "libra", "scorpio", "sagittarius", "capricorn", "aquarius",
                   "pisces" >>

EventType == { "travel", "wedding", "business", "interview", "surgery",
               "moving", "contract", "exam", "date", "other" }

\* Planets the native library has a body code for (all but the South Node).
PLANET_CODES == PlanetSet \ { "south_node" }

\* ------------------------------------------------------------------------
\* Bounds of the model
\* ------------------------------------------------------------------------
\* Calendar days are counted from 2000-01-01; the model looks at days
\* 0..MaxDay.
MaxDay == 3

\* The native-library ephemerides the model draws from are numbered
\* 0..MaxSky.
MaxSky == 8

\* Longest date range (in days after the start date) handed to the transit
\* search.
MaxSpan == 2

\* ------------------------------------------------------------------------
\* ephemeris.py
\* ------------------------------------------------------------------------
\* A datetime is [day, hour]; hour is 0 or 12.  HalfDays is the number of
\* half days since J2000.0 (2000-01-01 12:00), i.e. 2 * `days` of the code.
HalfDays(dt) == 2 * dt.day - 1 + (dt.hour \div 12)

mean_motions == [ p \in PlanetSet |->
    CASE p = "sun"     -> 9856
      [] p = "moon"    -> 131764
      [] p = "mercury" -> 40923
      [] p = "venus"   -> 16021
      [] p = "mars"    -> 5240
      [] p = "jupiter" -> 831
      [] p = "saturn"  -> 335
      [] p = "uranus"  -> 118
      [] p = "neptune" -> 60
      [] p = "pluto"   -> 40
      [] OTHER         -> 100 ]

base_longitudes == [ p \in PlanetSet |->
    CASE p = "sun"     -> 28046
      [] p = "moon"    -> 21832
      [] p = "mercury" -> 25225
      [] p = "venus"   -> 18198
      [] p = "mars"    -> 35545
      [] p = "jupiter" -> 3440
      [] p = "saturn"  -> 5008
      [] p = "uranus"  -> 31406
      [] p = "neptune" -> 30435
      [] p = "pluto"   -> 23896
      [] OTHER         -> 0 ]

\* Mean-motion fallback used when the native library is absent.
calculate_fallback(planet, dt) ==
    LET motion == mean_motions[planet]
        days2  == HalfDays(dt)
    IN  [ longitude |-> (base_longitudes[planet]
                          + (motion * days2) \div (2 * (SpeedScale \div Scale))) % Circle,
          speed     |-> motion ]

\* The native library (pyswisseph) is an external collaborator.  Its answers
\* are drawn from a bounded family of ephemerides, named by `sky`:
\*   sky.id      numbers the ephemeris: every longitude is offset by
\*               7 degrees * id, and the k-th body of DirOrder moves direct,
\*               backwards or not at all according to the k-th base-3 digit
\*               of id (0, 1, 2);
\*   sky.houses  whether the library can compute house cusps.
\* Within the few days the model looks at, every body moves linearly.
DirOrder == << "north_node", "mercury", "venus", "mars", "jupiter", "saturn",
               "uranus", "neptune", "pluto", "chiron", "sun", "moon" >>

RECURSIVE Pow3(_)
Pow3(k) == IF k = 0 THEN 1 ELSE 3 * Pow3(k - 1)

SkyDirection(sky, planet) ==
    LET k     == CHOOSE i \in 1..Len(DirOrder) : DirOrder[i] = planet
        digit == (sky.id \div Pow3(k - 1)) % 3
    IN  CASE digit = 0 -> 1
          [] digit = 1 -> -1
          [] digit = 2 -> 0

swe_calc_ut(sky, planet, dt) ==
    LET motion == SkyDirection(sky, planet) * mean_motions[planet]
        days2  == HalfDays(dt)
    IN  [ longitude |-> (base_longitudes[planet] + sky.id * 7 * Scale
                          + (motion * days2) \div (2 * (SpeedScale \div Scale))) % Circle,
          speed     |-> motion ]

calculate_with_swe(eph, planet, dt) == swe_calc_ut(eph.sky, planet, dt)

calculate_planet_position(eph, planet, dt) ==
    IF eph.swe /\ planet \in PLANET_CODES
    THEN calculate_with_swe(eph, planet, dt)
    ELSE calculate_fallback(planet, dt)

\* Mutant: the sign index is rounded to the nearest sign, not floored.
get_zodiac_sign_Rounded(longitude) ==
    LET sign_index     == ((longitude + SignWidth \div 2) \div SignWidth) % 12
        degree_in_sign == longitude % SignWidth
    IN  << ZODIAC_SIGNS[sign_index + 1], degree_in_sign >>

get_zodiac_sign(longitude) ==
    LET sign_index     == (longitude \div SignWidth) % 12
        degree_in_sign == longitude % SignWidth
    IN  << ZODIAC_SIGNS[sign_index + 1], degree_in_sign >>

\* Mutant: a stationary body (speed 0) counts as retrograde.
is_retrograde_NonPositive(speed) == speed <= 0

is_retrograde(speed) == speed < 0

RetrogradeCandidates == << "mercury", "venus", "mars", "jupiter", "saturn",
                           "uranus", "neptune", "pluto" >>

\* A date is a day number; datetime.combine(date, midnight).
Midnight(day) == [ day |-> day, hour |-> 0 ]

get_retrograde_planets(eph, target_date) ==
    SelectSeq(RetrogradeCandidates,
      LAMBDA p : is_retrograde(
                   calculate_planet_position(eph, p, Midnight(target_date)).speed))

\* Phase-name thresholds of get_lunar_info, in Scale units (11.25 deg, ...).
LunarPhaseName(phase_angle) ==
    IF phase_angle < (1125 * Scale) \div 100 THEN "new_moon"
    ELSE IF phase_angle < (7875 * Scale) \div 100 THEN "waxing_crescent"
    ELSE IF phase_angle < (10125 * Scale) \div 100 THEN "first_quarter"
    ELSE IF phase_angle < (16875 * Scale) \div 100 THEN "waxing_gibbous"
    ELSE IF phase_angle < (19125 * Scale) \div 100 THEN "full_moon"
    ELSE IF phase_angle < (25875 * Scale) \div 100 THEN "waning_gibbous"
    ELSE IF phase_angle < (28125 * Scale) \div 100 THEN "last_quarter"
    ELSE "waning_crescent"

get_lunar_info(eph, target_date) ==
    LET dt          == Midnight(target_date)
        sun_data    == calculate_planet_position(eph, "sun", dt)
        moon_data   == calculate_planet_position(eph, "moon", dt)
        phase_angle == (moon_data.longitude - sun_data.longitude) % Circle
        lunar_day   == Max2(1, Min2(30, (phase_angle \div (12 * Scale)) + 1))
    IN  << LunarPhaseName(phase_angle), lunar_day >>

\* ------------------------------------------------------------------------
\* natal_chart.py
\* ------------------------------------------------------------------------
AspectTypes == << "conjunction", "sextile", "square", "trine", "quincunx",
                  "opposition" >>

\* ASPECT_ANGLES, in dict (insertion) order: AspectTypes above.
ASPECT_ANGLES == [ a \in { AspectTypes[i] : i \in 1..6 } |->
    CASE a = "conjunction" -> 0
      [] a = "sextile"     -> 60 * Scale
      [] a = "square"      -> 90 * Scale
      [] a = "trine"       -> 120 * Scale
      [] a = "quincunx"    -> 150 * Scale
      [] a = "opposition"  -> 180 * Scale ]

ASPECT_ORBS == [ a \in { AspectTypes[i] : i \in 1..6 } |->
    CASE a = "conjunction" -> 10 * Scale
      [] a = "opposition"  -> 10 * Scale
      [] a = "trine"       -> 8 * Scale
      [] a = "square"      -> 8 * Scale
      [] a = "sextile"     -> 6 * Scale
      [] a = "quincunx"    -> 3 * Scale ]

\* pytz conversion of the local birth datetime; the model's only timezone
\* is UTC, where it is the identity.
ToUtc(birth_dt, timezone) == birth_dt

PlanetPositionOf(eph, planet, utc_dt) ==
    LET data == calculate_planet_position(eph, planet, utc_dt)
        zs   == get_zodiac_sign(data.longitude)
    IN  [ planet      |-> planet,
          sign        |-> zs[1],
          degree      |-> data.longitude,
          sign_degree |-> zs[2],
          retrograde  |-> is_retrograde(data.speed),
          house       |-> None ]

\* The South Node entry appended after the loop.
RetrogradeOfSouthNode(north_node) == TRUE

SouthNodeOf(north_node) ==
    LET south_node_degree == (north_node.degree + 180 * Scale) % Circle
        zs                == get_zodiac_sign(south_node_degree)
    IN  [ planet      |-> "south_node",
          sign        |-> zs[1],
          degree      |-> south_node_degree,
          sign_degree |-> zs[2],
          retrograde  |-> RetrogradeOfSouthNode(north_node),
          house       |-> None ]

calculate_planets(eph, birth_dt, timezone) ==
    LET utc_dt == ToUtc(birth_dt, timezone)
        order  == SelectSeq(Planet, LAMBDA p : p # "south_node")
        main   == [ i \in 1..Len(order) |-> PlanetPositionOf(eph, order[i], utc_dt) ]
        north  == SelectSeq(main, LAMBDA p : p.planet = "north_node")
    IN  IF Len(north) > 0 THEN Append(main, SouthNodeOf(north[1])) ELSE main

\* swe.houses(jd, lat, lon, b"P"): the native library either raises (no
\* `houses` entry point, or a latitude beyond the polar circle, where
\* Placidus cusps do not exist) or returns 12 cusp longitudes.  <<>> stands
\* for the exception.
swe_houses(sky, utc_dt, latitude) ==
    IF ~sky.houses \/ Abs(latitude) > 66
    THEN <<>>
    ELSE LET asc == (sky.id * 7 * Scale
                     + 15 * Scale * (HalfDays(utc_dt) % 24)) % Circle
         IN  [ i \in 1..12 |->
                 (asc + (i - 1) * SignWidth
                      + (IF i % 2 = 0 THEN 3 * Scale ELSE 0)) % Circle ]

IndexOf(seq, x) == CHOOSE i \in 1..Len(seq) : seq[i] = x

calculate_whole_sign_houses(eph, utc_dt) ==
    LET sun_data    == calculate_planet_position(eph, "sun", utc_dt)
        sun_sign    == get_zodiac_sign(sun_data.longitude)[1]
        start_index == IndexOf(ZODIAC_SIGNS, sun_sign) - 1
    IN  [ i \in 1..12 |->
            [ number  |-> i,
              sign    |-> ZODIAC_SIGNS[((start_index + (i - 1)) % 12) + 1],
              degree  |-> 0,
              planets |-> <<>> ] ]

HouseCount == 12

calculate_houses(eph, birth_dt, latitude, timezone) ==
    LET utc_dt == ToUtc(birth_dt, timezone)
        cusps  == swe_houses(eph.sky, utc_dt, latitude)
    IN  IF ~eph.swe
        THEN calculate_whole_sign_houses(eph, utc_dt)
        ELSE IF cusps = <<>>
        THEN calculate_whole_sign_houses(eph, utc_dt)
        ELSE [ i \in 1..HouseCount |->
                 LET zs == get_zodiac_sign(cusps[i])
                 IN  [ number  |-> i,
                       sign    |-> zs[1],
                       degree  |-> zs[2],
                       planets |-> <<>> ] ]

fast_planets == { "moon", "sun", "mercury", "venus", "mars" }

natal_is_applying(planet1, planet2, aspect_type) ==
    IF planet1.planet \in fast_planets /\ planet2.planet \notin fast_planets
    THEN TRUE
    ELSE IF planet2.planet \in fast_planets /\ planet1.planet \notin fast_planets
    THEN FALSE
    ELSE TRUE

\* Angular separation folded into [0, 180].
Separation(lon1, lon2) ==
    LET diff == Abs(lon1 - lon2)
    IN  IF diff > 180 * Scale THEN Circle - diff ELSE diff

\* First aspect type, in ASPECT_ANGLES order, whose orb admits the pair.
find_aspect(planet1, planet2) ==
    LET diff == Separation(planet1.degree, planet2.degree)
        hits == SelectSeq(AspectTypes,
                  LAMBDA a : Abs(diff - ASPECT_ANGLES[a]) <= ASPECT_ORBS[a])
    IN  IF Len(hits) = 0
        THEN None
        ELSE Some([ planet1     |-> planet1.planet,
                    planet2     |-> planet2.planet,
                    aspect_type |-> hits[1],
                    orb         |-> Abs(diff - ASPECT_ANGLES[hits[1]]),
                    applying    |-> natal_is_applying(planet1, planet2, hits[1]) ])

major_planets == << "sun", "moon", "mercury", "venus", "mars", "jupiter",
                    "saturn", "uranus", "neptune", "pluto" >>

RECURSIVE ConcatAll(_)
ConcatAll(seqs) ==
    IF Len(seqs) = 0 THEN <<>> ELSE Head(seqs) \o ConcatAll(Tail(seqs))

\* The double loop with checked_pairs visits each unordered pair once, the
\* first time in the order (i, j) with i < j.
calculate_aspects(planets) ==
    LET Find(p) == SelectSeq(planets, LAMBDA q : q.planet = p)
        pairs   == ConcatAll([ i \in 1..Len(major_planets) |->
                      [ k \in 1..(Len(major_planets) - i) |-> << i, i + k >> ] ])
        One(pr) == LET f1 == Find(major_planets[pr[1]])
                       f2 == Find(major_planets[pr[2]])
                   IN  IF Len(f1) = 0 \/ Len(f2) = 0
                       THEN None
                       \* planet_map keeps the last entry of a planet
                       ELSE find_aspect(f1[Len(f1)], f2[Len(f2)])
    IN  ConcatAll([ n \in 1..Len(pairs) |-> One(pairs[n]) ])

\* ------------------------------------------------------------------------
\* policies/orbs.py
\* ------------------------------------------------------------------------
NATAL_DEFAULT == [ c \in { "luminaries", "personal", "social", "outer", "angles" } |->
    CASE c = "luminaries" -> 10 * Scale
      [] c = "personal"   -> 8 * Scale
      [] c = "social"     -> 7 * Scale
      [] c = "outer"      -> 6 * Scale
      [] c = "angles"     -> 5 * Scale ]

TRANSIT_DEFAULT == [ c \in { "sun_moon", "personal", "social", "outer" } |->
    CASE c = "sun_moon" -> (25 * Scale) \div 10
      [] c = "personal" -> 2 * Scale
      [] c = "social"   -> (15 * Scale) \div 10
      [] c = "outer"    -> 1 * Scale ]

natal_orb_for(body) ==
    IF body \in { "sun", "moon" } THEN NATAL_DEFAULT["luminaries"]
    ELSE IF body \in { "mercury", "venus", "mars" } THEN NATAL_DEFAULT["personal"]
    ELSE IF body \in { "jupiter", "saturn" } THEN NATAL_DEFAULT["social"]
    ELSE NATAL_DEFAULT["outer"]

transit_orb_for(transit_body) ==
    IF transit_body \in { "sun", "moon" } THEN TRANSIT_DEFAULT["sun_moon"]
    ELSE IF transit_body \in { "mercury", "venus", "mars" } THEN TRANSIT_DEFAULT["personal"]
    ELSE IF transit_body \in { "jupiter", "saturn" } THEN TRANSIT_DEFAULT["social"]
    ELSE TRANSIT_DEFAULT["outer"]

\* ------------------------------------------------------------------------
\* State
\* ------------------------------------------------------------------------
VARIABLES
    eph,    \* the service's SwissEphemeris: [swe, engine_mode, sky]
    req,    \* the call being made: its entry point and arguments
    out,    \* Idle, or what the call returned
    first,  \* Idle, or the first completed call: [req, out]
    now     \* the wall clock, in ticks; every transit search takes one tick

vars == << eph, req, out, first, now >>

Idle == [ op |-> "idle" ]

NullSky == [ id |-> 0, houses |-> FALSE ]

\* SwissEphemeris.__init__: without the native library the engine stays in
\* "moseph"; with it, the mode is "swieph" iff an ephemeris path was given.
EphConfigs ==
    { [ swe |-> FALSE, engine_mode |-> "moseph", sky |-> NullSky ] }
    \cup { [ swe |-> TRUE, engine_mode |-> m, sky |-> [ id |-> i, houses |-> h ] ] :
             m \in { "moseph", "swieph" }, i \in 0..MaxSky, h \in BOOLEAN }

\* ------------------------------------------------------------------------
\* transits.py
\* ------------------------------------------------------------------------
TRANSIT_ORBS == [ a \in { AspectTypes[i] : i \in 1..6 } |->
    CASE a = "conjunction" -> 3 * Scale
      [] a = "opposition"  -> 3 * Scale
      [] a = "trine"       -> 2 * Scale
      [] a = "square"      -> 2 * Scale
      [] a = "sextile"     -> 2 * Scale
      [] a = "quincunx"    -> 1 * Scale ]

transiting_planets == << "mars", "jupiter", "saturn", "uranus", "neptune", "pluto" >>

natal_points == << "sun", "moon", "mercury", "venus", "mars", "jupiter", "saturn" >>

\* TRANSIT_MEANINGS has an entry for every transiting planet and every
\* aspect type but the quincunx; the default text also names the natal body.
TransitDescription(trans_planet, aspect_type, natal_planet) ==
    IF aspect_type # "quincunx"
    THEN << trans_planet, aspect_type >>
    ELSE << trans_planet, aspect_type, "natal", natal_planet >>

\* Mutant: the entry is stamped with the time of the call (as
\* engine/transits.py does with datetime.utcnow()) and not with the day
\* that was checked.
TransitExactDate_CallTime(check_date) == now

\* exact_date=check_date
TransitExactDate(check_date) == check_date

find_transit_aspect(trans_planet, trans_lon, natal_planet, natal_lon, check_date) ==
    LET diff == Separation(trans_lon, natal_lon)
        hits == SelectSeq(AspectTypes,
                  LAMBDA a : Abs(diff - ASPECT_ANGLES[a]) <= TRANSIT_ORBS[a])
    IN  IF Len(hits) = 0
        THEN None
        ELSE Some([ transiting_planet |-> trans_planet,
                    natal_planet      |-> natal_planet,
                    aspect            |-> hits[1],
                    exact_date        |-> TransitExactDate(check_date),
                    orb               |-> Abs(diff - ASPECT_ANGLES[hits[1]]),
                    description       |-> TransitDescription(trans_planet, hits[1],
                                                             natal_planet) ])

\* "Avoid duplicates": a hit is appended unless its triple is recorded.
RecordTransit(transits, aspect_info) ==
    IF \E n \in 1..Len(transits) :
          /\ transits[n].transiting_planet = aspect_info.transiting_planet
          /\ transits[n].natal_planet = aspect_info.natal_planet
          /\ transits[n].aspect = aspect_info.aspect
    THEN transits
    ELSE Append(transits, aspect_info)

\* The hits of one day, in the order of the two inner loops (transiting
\* planet outermost, natal point innermost); pairs without a natal position
\* or without an aspect contribute nothing.
DayHits(e, natal_planets, current_date) ==
    LET trans_lon == [ ti \in 1..Len(transiting_planets) |->
                         calculate_planet_position(e, transiting_planets[ti],
                                                   Midnight(current_date)).longitude ]
        Cell(k) ==
            LET ti    == ((k - 1) \div Len(natal_points)) + 1
                ni    == ((k - 1) % Len(natal_points)) + 1
                found == SelectSeq(natal_planets, LAMBDA q : q.planet = natal_points[ni])
            IN  IF Len(found) = 0
                THEN None
                ELSE find_transit_aspect(transiting_planets[ti], trans_lon[ti],
                                         natal_points[ni], found[1].degree, current_date)
        cells   == [ k \in 1..(Len(transiting_planets) * Len(natal_points)) |-> Cell(k) ]
        present == SelectSeq(cells, LAMBDA c : c # None)
    IN  [ n \in 1..Len(present) |-> present[n][1] ]

\* The hits of one day are recorded one after the other.
RECURSIVE ScanDay(_, _, _)
ScanDay(transits, hits, n) ==
    IF n > Len(hits)
    THEN transits
    ELSE LET t1 == RecordTransit(transits, hits[n])
         IN  IF Len(t1) >= 0 THEN ScanDay(t1, hits, n + 1) ELSE t1

\* while current_date <= end_date
RECURSIVE ScanRange(_, _, _, _, _)
ScanRange(e, natal_planets, transits, current_date, end_date) ==
    IF current_date > end_date
    THEN transits
    ELSE LET t1 == ScanDay(transits, DayHits(e, natal_planets, current_date), 1)
         IN  IF Len(t1) >= 0
             THEN ScanRange(e, natal_planets, t1, current_date + 1, end_date)
             ELSE t1

calculate_transits_from(transits0, e, natal_planets, start_date, end_date) ==
    ScanRange(e, natal_planets, transits0, start_date, end_date)

\* ------------------------------------------------------------------------
\* service.py: calculate_natal_chart
\* ------------------------------------------------------------------------
\* Geocoder outcomes: a location, None (place not found), or GeocodingError.
Locations == { [ latitude |-> lat, timezone |-> "UTC" ] : lat \in { 50, 70 } }

GeoOutcomes == { [ kind |-> "ok", location |-> l ] : l \in Locations }
               \cup { [ kind |-> "none" ], [ kind |-> "error" ] }

BirthTimes == { None, Some(0), Some(12) }

NatalRequests ==
    { [ op |-> "calculate_natal_chart", birth_date |-> d, birth_time |-> t, geo |-> g ] :
        d \in 0..MaxDay, t \in BirthTimes, g \in GeoOutcomes }

\* NatalChartResponse.provenance is Optional with default None, and the
\* constructor call in calculate_natal_chart does not pass it.
ResponseProvenance(e) == None

\* Mutant: midnight counts as "no birth time" (datetime.time truthiness
\* before Python 3.5).
BirthTimeGiven_MidnightFalsy(request) ==
    request.birth_time # None /\ request.birth_time # Some(0)

\* `request.birth_time or time(12, 0)` and `if request.birth_time:`;
\* a datetime.time is always truthy, midnight included.
BirthTimeGiven(request) == request.birth_time # None

calculate_natal_chart(e, request) ==
    IF request.geo.kind # "ok"
    THEN [ op |-> request.op, status |-> "raised", error |-> "ValueError" ]
    ELSE
    LET location       == request.geo.location
        birth_hour     == IF request.birth_time # None THEN request.birth_time[1] ELSE 12
        birth_datetime == [ day |-> request.birth_date, hour |-> birth_hour ]
        planets        == calculate_planets(e, birth_datetime, location.timezone)
        houses         == IF BirthTimeGiven(request)
                          THEN Some(calculate_houses(e, birth_datetime,
                                      location.latitude, location.timezone))
                          ELSE None
        aspects        == calculate_aspects(planets)
        sun_position   == SelectSeq(planets, LAMBDA q : q.planet = "sun")[1]
        moon_position  == SelectSeq(planets, LAMBDA q : q.planet = "moon")[1]
    IN  [ op         |-> request.op,
          status     |-> "ok",
          birth_date |-> request.birth_date,
          birth_time |-> request.birth_time,
          sun_sign   |-> sun_position.sign,
          moon_sign  |-> moon_position.sign,
          ascendant  |-> IF houses # None THEN Some(houses[1][1].sign) ELSE None,
          midheaven  |-> IF houses # None THEN Some(houses[1][10].sign) ELSE None,
          planets    |-> planets,
          houses     |-> houses,
          aspects    |-> aspects,
          provenance |-> ResponseProvenance(e) ]

\* ------------------------------------------------------------------------
\* service.py: favorability
\* ------------------------------------------------------------------------
retrograde_penalties == [ p \in { "mercury", "venus", "mars" } |->
    CASE p = "mercury" -> { "contract", "interview", "exam" }
      [] p = "venus"   -> { "wedding", "date" }
      [] p = "mars"    -> { "surgery", "business" } ]

LunarPhases == { "new_moon", "waxing_crescent", "first_quarter", "waxing_gibbous",
                 "full_moon", "waning_gibbous", "last_quarter", "waning_crescent" }

favorable_phases == [ ph \in LunarPhases |->
    CASE ph = "new_moon"        -> { "business", "contract" }
      [] ph = "waxing_crescent" -> { "interview", "exam" }
      [] ph = "first_quarter"   -> { "business", "moving" }
      [] ph = "waxing_gibbous"  -> { "wedding", "date" }
      [] ph = "full_moon"       -> { "travel" }
      [] ph = "waning_gibbous"  -> { "surgery" }
      [] ph = "last_quarter"    -> { "moving" }
      [] ph = "waning_crescent" -> { "surgery" } ]

\* Running state of _calculate_favorability: [score, positive, risk].
BaseScore == 50

TransitStep(acc, transit) ==
    LET factor == << transit.transiting_planet, transit.aspect, transit.natal_planet >>
    IN  IF transit.aspect \in { "trine", "sextile" }
        THEN [ acc EXCEPT !.score = @ + 5, !.positive = Append(@, factor) ]
        ELSE IF transit.aspect \in { "square", "opposition" }
        THEN [ acc EXCEPT !.score = @ - 5, !.risk = Append(@, factor) ]
        ELSE acc

\* Mutant: a listed retrograde planet costs 15 whatever the event type.
RetrogradeStep_Flat(acc, planet, event_type) ==
    IF planet \in DOMAIN retrograde_penalties
    THEN [ acc EXCEPT !.score = @ - 15,
                      !.risk = Append(@, << planet, "retrograde" >>) ]
    ELSE acc

RetrogradeStep(acc, planet, event_type) ==
    IF planet \in DOMAIN retrograde_penalties
    THEN IF event_type \in retrograde_penalties[planet]
         THEN [ acc EXCEPT !.score = @ - 15,
                           !.risk = Append(@, << planet, "retrograde" >>) ]
         ELSE [ acc EXCEPT !.score = @ - 5 ]
    ELSE acc

LunarStep(acc, lunar_phase, event_type) ==
    IF lunar_phase \in DOMAIN favorable_phases
       /\ event_type \in favorable_phases[lunar_phase]
    THEN [ acc EXCEPT !.score = @ + 10,
                      !.positive = Append(@, << "lunar_phase", lunar_phase >>) ]
    ELSE acc

RECURSIVE FoldTransits(_, _, _)
FoldTransits(acc, transits, n) ==
    IF n > Len(transits) THEN acc
    ELSE FoldTransits(TransitStep(acc, transits[n]), transits, n + 1)

RECURSIVE FoldRetrogrades(_, _, _, _)
FoldRetrogrades(acc, retrograde_planets, event_type, n) ==
    IF n > Len(retrograde_planets) THEN acc
    ELSE FoldRetrogrades(RetrogradeStep(acc, retrograde_planets[n], event_type),
                         retrograde_planets, event_type, n + 1)

\* Mutant: only the lower bound is enforced.
ClampScore_NoUpper(score) == Max2(0, score)

\* score = max(0, min(100, score))
ClampScore(score) == Max2(0, Min2(100, score))

calculate_favorability(transits, retrograde_planets, lunar_phase, lunar_day, event_type) ==
    LET a0 == [ score |-> BaseScore, positive |-> <<>>, risk |-> <<>> ]
        a1 == FoldTransits(a0, transits, 1)
        a2 == FoldRetrogrades(a1, retrograde_planets, event_type, 1)
        a3 == LunarStep(a2, lunar_phase, event_type)
    IN  [ a3 EXCEPT !.score = ClampScore(@) ]

score_to_level(score) ==
    IF score >= 80 THEN "excellent"
    ELSE IF score >= 60 THEN "good"
    ELSE IF score >= 40 THEN "neutral"
    ELSE IF score >= 20 THEN "challenging"
    ELSE "difficult"

\* ------------------------------------------------------------------------
\* service.py: forecast_event, _find_better_dates, generate_horoscope
\* ------------------------------------------------------------------------
\* transits = []  (a fresh local list on every call)
InitialTransits == <<>>

calculate_transits(e, natal_planets, start_date, end_date) ==
    calculate_transits_from(InitialTransits, e, natal_planets, start_date, end_date)

\* Transits, retrogrades, lunar phase and score of one date, as computed
\* both for the event date and for every candidate date.
DayScore(e, natal_chart, check_date, event_type) ==
    LET transits == IF natal_chart # None
                    THEN calculate_transits(e, natal_chart[1], check_date, check_date)
                    ELSE <<>>
        retro    == get_retrograde_planets(e, check_date)
        lunar    == get_lunar_info(e, check_date)
    IN  [ transits |-> transits, retrograde_planets |-> retro,
          lunar_phase |-> lunar[1], lunar_day |-> lunar[2],
          fav |-> calculate_favorability(transits, retro, lunar[1], lunar[2], event_type) ]

SearchWindow == 7

AlternativeThreshold == 60

MaxAlternatives == 3

\* for delta in range(-7, 8): if delta == 0: continue
SearchDeltas ==
    [ n \in 1..(2 * SearchWindow) |->
        IF n <= SearchWindow THEN n - SearchWindow - 1 ELSE n - SearchWindow ]

\* Stable insertion of x into a list sorted by descending score.
RECURSIVE InsertDesc(_, _)
InsertDesc(sorted, x) ==
    IF Len(sorted) = 0 THEN << x >>
    ELSE IF Head(sorted)[2] >= x[2]
    THEN << Head(sorted) >> \o InsertDesc(Tail(sorted), x)
    ELSE << x >> \o sorted

RECURSIVE SortDesc(_)
SortDesc(alts) ==
    IF Len(alts) = 0 THEN <<>>
    ELSE InsertDesc(SortDesc(SubSeq(alts, 1, Len(alts) - 1)), alts[Len(alts)])

\* Mutant: the candidates are returned in calendar order, unsorted.
TopDates_Unsorted(alternatives) ==
    LET top == SubSeq(alternatives, 1, Min2(MaxAlternatives, Len(alternatives)))
    IN  [ n \in 1..Len(top) |-> top[n][1] ]

\* alternatives.sort(key=score, reverse=True); [d[0] for d in alternatives[:3]]
TopDates(alternatives) ==
    LET sorted == SortDesc(alternatives)
        top    == SubSeq(sorted, 1, Min2(MaxAlternatives, Len(sorted)))
    IN  [ n \in 1..Len(top) |-> top[n][1] ]

find_better_dates(e, original_date, event_type, natal_chart) ==
    LET cand == [ n \in 1..Len(SearchDeltas) |->
                    LET check_date == original_date + SearchDeltas[n]
                    IN  << check_date,
                           DayScore(e, natal_chart, check_date, event_type).fav.score >> ]
        alternatives == SelectSeq(cand, LAMBDA c : c[2] >= AlternativeThreshold)
    IN  TopDates(alternatives)

RetryBelow == 50

forecast_event(e, request) ==
    LET day   == DayScore(e, request.natal_chart, request.event_date, request.event_type)
        score == day.fav.score
    IN  [ op                 |-> request.op,
          status             |-> "ok",
          event_date         |-> request.event_date,
          event_type         |-> request.event_type,
          favorability_score |-> score,
          favorability_level |-> score_to_level(score),
          transits           |-> day.transits,
          retrograde_planets |-> day.retrograde_planets,
          lunar_phase        |-> day.lunar_phase,
          lunar_day          |-> day.lunar_day,
          positive_factors   |-> day.fav.positive,
          risk_factors       |-> day.fav.risk,
          alternative_dates  |-> IF score < RetryBelow
                                 THEN Some(find_better_dates(e, request.event_date,
                                             request.event_type, request.natal_chart))
                                 ELSE None,
          provenance         |-> ResponseProvenance(e) ]

\* 2000-01-01 (day 0) was a Saturday: date.weekday() = 5.
Weekday(day) == (5 + day) % 7

get_period_boundaries(target_date, period) ==
    IF period = "daily"
    THEN << target_date, target_date >>
    ELSE \* weekly: the week starts on Monday
         << target_date - Weekday(target_date), target_date - Weekday(target_date) + 6 >>

generate_horoscope(e, request) ==
    LET bounds   == get_period_boundaries(request.target_date, request.period)
        transits == IF request.natal_chart # None
                    THEN calculate_transits(e, request.natal_chart[1], bounds[1], bounds[2])
                    ELSE <<>>
        retro    == IF request.natal_chart # None
                    THEN get_retrograde_planets(e, request.target_date)
                    ELSE <<>>
        lunar    == get_lunar_info(e, request.target_date)
    IN  [ op                 |-> request.op,
          status             |-> "ok",
          period             |-> request.period,
          period_start       |-> bounds[1],
          period_end         |-> bounds[2],
          transits           |-> transits,
          retrograde_planets |-> retro,
          lunar_phase        |-> lunar[1],
          lunar_day          |-> lunar[2],
          provenance         |-> ResponseProvenance(e) ]

\* ------------------------------------------------------------------------
\* lunar/engine.py
\* ------------------------------------------------------------------------
SIGNS == << "Aries", "Taurus", "Gemini", "Cancer", "Leo", "Virgo", "Libra",
            "Scorpio", "Sagittarius", "Capricorn", "Aquarius", "Pisces" >>

moon_sign(longitude) ==
    LET index == (longitude \div SignWidth) % 12
    IN  SIGNS[index + 1]

\* ------------------------------------------------------------------------
\* Inputs
\* ------------------------------------------------------------------------
\* A natal chart handed to the transit search: PlanetPosition entries built
\* from (planet, degree) pairs.
ChartOf(pairs) ==
    [ n \in 1..Len(pairs) |->
        LET zs == get_zodiac_sign(pairs[n][2])
        IN  [ planet |-> pairs[n][1], sign |-> zs[1], degree |-> pairs[n][2],
              sign_degree |-> zs[2], retrograde |-> FALSE, house |-> None ] ]

\* Mars (about 355-357 deg in the mean-motion ephemeris) closes in on the
\* natal Sun during the first days; Pluto and Jupiter hold their aspects.
ChartTight == ChartOf(<< << "sun", 35800 >>, << "moon", 24150 >>, << "mercury", 9440 >> >>)

\* Mars squares the natal Sun around day 3 and reaches a sextile to the
\* natal Moon a week later.
ChartMars == ChartOf(<< << "sun", 8650 >>, << "moon", 24095 >> >>)

\* The chart of somebody born at noon of day 0 under the same ephemeris.
ChartBorn(e) == calculate_planets(e, [ day |-> 0, hour |-> 12 ], "UTC")

NatalCharts(e) == { ChartTight, ChartMars, ChartBorn(e) }

\* Ephemeris configurations used where house cusps and the engine mode play
\* no part.
EphCore == { e \in EphConfigs : e.swe => (e.sky.houses /\ e.engine_mode = "swieph") }

ForecastEventTypes == { "interview", "surgery", "business", "wedding", "other" }

ForecastRequests(e) ==
    { [ op |-> "forecast_event", event_date |-> d, event_type |-> t, natal_chart |-> c ] :
        d \in 0..MaxDay, t \in ForecastEventTypes,
        c \in { None } \cup { Some(ch) : ch \in NatalCharts(e) } }

HoroscopeRequests(e) ==
    { [ op |-> "generate_horoscope", target_date |-> d, period |-> pd, natal_chart |-> c ] :
        d \in 0..MaxDay, pd \in { "daily", "weekly" },
        c \in { None } \cup { Some(ch) : ch \in NatalCharts(e) } }

\* ------------------------------------------------------------------------
\* The service: one call per behaviour
\* ------------------------------------------------------------------------
CalculateNatalChart ==
    /\ out = Idle
    /\ req.op = "calculate_natal_chart"
    /\ out' = calculate_natal_chart(eph, req)
    /\ UNCHANGED << eph, req, first, now >>

GenerateHoroscope ==
    /\ out = Idle
    /\ req.op = "generate_horoscope"
    /\ out' = generate_horoscope(eph, req)
    /\ UNCHANGED << eph, req, first, now >>

ForecastEvent ==
    /\ out = Idle
    /\ req.op = "forecast_event"
    /\ out' = forecast_event(eph, req)
    /\ UNCHANGED << eph, req, first, now >>

InitService ==
    /\ eph \in EphConfigs
    /\ \/ req \in NatalRequests
       \/ /\ eph \in EphCore
          /\ req \in ForecastRequests(eph) \cup HoroscopeRequests(eph)
    /\ out = Idle
    /\ first = Idle
    /\ now = 0

NextService == CalculateNatalChart \/ GenerateHoroscope \/ ForecastEvent

SpecService == InitService /\ [][NextService]_vars

\* ------------------------------------------------------------------------
\* The transit calculator: consecutive searches on one TransitCalculator
\* ------------------------------------------------------------------------
\* Number of transit searches made in one behaviour.
MaxCalls == 2

\* The mean-motion ephemeris and the two ends of the native family.
EphTransit == { e \in EphCore : e.sky.id \in { 0, MaxSky } }

TransitRequests(e) ==
    { [ op |-> "calculate_transits", natal_planets |-> c, start_date |-> d,
        end_date |-> d + span ] :
        c \in NatalCharts(e), d \in { 0, MaxDay }, span \in { 0, MaxSpan } }

CalculateTransits ==
    /\ now < MaxCalls
    /\ \E r \in TransitRequests(eph) :
          /\ req' = r
          /\ out' = [ op     |-> r.op,
                      status |-> "ok",
                      result |-> calculate_transits(eph, r.natal_planets,
                                                    r.start_date, r.end_date) ]
    /\ first' = IF first = Idle THEN [ req |-> req', out |-> out' ] ELSE first
    /\ now' = now + 1
    /\ UNCHANGED eph

InitTransit ==
    /\ eph \in EphTransit
    /\ req = Idle
    /\ out = Idle
    /\ first = Idle
    /\ now = 0

NextTransit == CalculateTransits

SpecTransit == InitTransit /\ [][NextTransit]_vars

\* ------------------------------------------------------------------------
\* The favorability scorer on arbitrary inputs
\* ------------------------------------------------------------------------
\* Longest run of harmonious, and of hard, transits handed to the scorer.
MaxTransits == 11

\* h harmonious transits, then s hard ones, then n neutral ones.  The scorer
\* is driven with long runs of one kind mixed with at most one of the other.
TransitList(h, s, n) ==
    [ k \in 1..(h + s + n) |->
        [ transiting_planet |-> "jupiter",
          natal_planet      |-> "sun",
          aspect            |-> IF k <= h THEN (IF k % 2 = 1 THEN "trine" ELSE "sextile")
                                ELSE IF k <= h + s
                                THEN (IF k % 2 = 1 THEN "square" ELSE "opposition")
                                ELSE (IF k % 2 = 1 THEN "conjunction" ELSE "quincunx"),
          exact_date        |-> 0,
          orb               |-> 0,
          description       |-> << >> ] ]

RetrogradeLists == { << >>, << "mercury" >>, << "venus", "mars" >>,
                     << "mercury", "venus", "mars" >>, << "jupiter", "pluto" >>,
                     << "mercury", "jupiter", "venus" >> }

FavorRequests(max) ==
    { [ op |-> "calculate_favorability", transits |-> TransitList(hs[1], hs[2], n),
        retrograde_planets |-> r, lunar_phase |-> ph, lunar_day |-> 1,
        event_type |-> t ] :
        hs \in { p \in (0..max) \X (0..max) : p[1] <= 1 \/ p[2] <= 1 },
        n \in 0..1, r \in RetrogradeLists, ph \in LunarPhases, t \in EventType }

\* The score and the level reported with it, as forecast_event pairs them.
CalculateFavorability ==
    /\ out = Idle
    /\ req.op = "calculate_favorability"
    /\ LET fav == calculate_favorability(req.transits, req.retrograde_planets,
                                         req.lunar_phase, req.lunar_day, req.event_type)
       IN  out' = [ op |-> req.op, status |-> "ok",
                    favorability_score |-> fav.score,
                    favorability_level |-> score_to_level(fav.score),
                    positive_factors   |-> fav.positive,
                    risk_factors       |-> fav.risk ]
    /\ UNCHANGED << eph, req, first, now >>

InitFavor ==
    /\ eph = [ swe |-> FALSE, engine_mode |-> "moseph", sky |-> NullSky ]
    /\ req \in FavorRequests(MaxTransits)
    /\ out = Idle
    /\ first = Idle
    /\ now = 0

NextFavor == CalculateFavorability

SpecFavor == InitFavor /\ [][NextFavor]_vars

\* ------------------------------------------------------------------------
\* Longitude to zodiac sign
\* ------------------------------------------------------------------------
GetZodiacSign ==
    /\ out = Idle
    /\ req.op = "get_zodiac_sign"
    /\ LET zs == get_zodiac_sign(req.longitude)
       IN  out' = [ op |-> req.op, status |-> "ok", sign |-> zs[1],
                    sign_degree |-> zs[2], moon_sign |-> moon_sign(req.longitude) ]
    /\ UNCHANGED << eph, req, first, now >>

InitZodiac ==
    /\ eph = [ swe |-> FALSE, engine_mode |-> "moseph", sky |-> NullSky ]
    /\ req \in { [ op |-> "get_zodiac_sign", longitude |-> l ] : l \in 0..(Circle - 1) }
    /\ out = Idle
    /\ first = Idle
    /\ now = 0

NextZodiac == GetZodiacSign

SpecZodiac == InitZodiac /\ [][NextZodiac]_vars

\* ------------------------------------------------------------------------
\* validators/quality_gates.py: detect_numeric_hallucination
\* ------------------------------------------------------------------------
\* A text is a sequence of characters.  " " stands for every character that
\* is neither a digit, nor "." nor "-" (letters, quotes, brackets, blanks):
\* NUMERIC_PATTERN treats them all alike.
DigitChars == << "0", "1", "2", "3", "4", "5", "6", "7", "8", "9" >>

IsDigit(c) == \E d \in 1..10 : DigitChars[d] = c

DigitValue(c) == (CHOOSE d \in 1..10 : DigitChars[d] = c) - 1

\* Longest text handed to the numeric scanner.
MaxTextLen == 4

\* Length of the run of digits of text that starts at position i.
RECURSIVE DigitRun(_, _)
DigitRun(text, i) ==
    IF i > Len(text) THEN 0
    ELSE IF IsDigit(text[i]) THEN 1 + DigitRun(text, i + 1)
    ELSE 0

\* NUMERIC_PATTERN = -?\d+\.\d+|-?\d+ tried at position i: the position
\* after the match, or 0 when neither alternative matches there.  The
\* decimal alternative is tried first; \d+ is greedy.
NumericMatchEnd(text, i) ==
    LET s  == IF i <= Len(text) /\ text[i] = "-" THEN i + 1 ELSE i
        d1 == DigitRun(text, s)
        d2 == IF s + d1 <= Len(text) /\ text[s + d1] = "."
              THEN DigitRun(text, s + d1 + 1) ELSE 0
    IN  IF d1 = 0 THEN 0
        ELSE IF d2 > 0 THEN s + d1 + 1 + d2
        ELSE s + d1

\* NUMERIC_PATTERN.findall(text): leftmost non-overlapping matches.
RECURSIVE findall(_, _)
findall(text, i) ==
    IF i > Len(text) THEN <<>>
    ELSE LET e == NumericMatchEnd(text, i)
         IN  IF e = 0 THEN findall(text, i + 1)
             ELSE << SubSeq(text, i, e - 1) >> \o findall(text, e)

\* Decimal digits of a natural number, as str(int) writes them.
RECURSIVE NatDigits(_)
NatDigits(n) ==
    IF n < 10 THEN << DigitChars[n + 1] >>
    ELSE NatDigits(n \div 10) \o << DigitChars[(n % 10) + 1] >>

\* A JSON value is a record [t, v]: a dict or a list of values, an int, a
\* float (v counts tenths: 20 is 2.0), a string or None.
JDict(values) == [ t |-> "dict", v |-> values ]
JList(values) == [ t |-> "list", v |-> values ]
JInt(n) == [ t |-> "int", v |-> n ]
JFloat(tenths) == [ t |-> "float", v |-> tenths ]
JStr(text) == [ t |-> "str", v |-> text ]
JNone == [ t |-> "none", v |-> <<>> ]

\* str(number): "2" for the int 2, "2.0" for the float 2.0, "-2.5" for -2.5.
StrOfNumber(j) ==
    LET a    == Abs(j.v)
        sign == IF j.v < 0 THEN << "-" >> ELSE <<>>
    IN  IF j.t = "int"
        THEN sign \o NatDigits(a)
        ELSE sign \o NatDigits(a \div 10) \o << "." >> \o NatDigits(a % 10)

RECURSIVE extract_numbers_from_json(_)
extract_numbers_from_json(data) ==
    IF data.t \in { "dict", "list" }
    THEN ConcatAll([ k \in 1..Len(data.v) |-> extract_numbers_from_json(data.v[k]) ])
    ELSE IF data.t \in { "int", "float" }
    THEN << StrOfNumber(data) >>
    ELSE <<>>

detect_numeric_hallucination(text, computed_json) ==
    LET numbers         == extract_numbers_from_json(computed_json)
        allowed_numbers == { numbers[k] : k \in 1..Len(numbers) }
    IN  SelectSeq(findall(text, 1), LAMBDA match : match \notin allowed_numbers)

\* The characters texts are made of.
TextChars == { "0", "2", "5", ".", "-", " " }

Texts(n) == UNION { [ 1..k -> TextChars ] : k \in 0..n }

\* Computed facts handed to the gate (dict keys play no part: only the
\* values are visited).  The first is {"aspects": [{"orb": 2.0}]}.
ComputedFacts ==
    { JDict(<< JList(<< JDict(<< JFloat(20) >>) >>) >>),
      JDict(<< JInt(2) >>),
      JDict(<< JFloat(25), JList(<< JInt(5), JStr(<< "2" >>) >>) >>),
      JDict(<< JFloat(-25), JInt(20), JNone >>),
      JDict(<<>>) }

HallucinationRequests(n) ==
    { [ op |-> "detect_numeric_hallucination", text |-> t, computed_json |-> c ] :
        t \in Texts(n), c \in ComputedFacts }

DetectNumericHallucination ==
    /\ out = Idle
    /\ req.op = "detect_numeric_hallucination"
    /\ out' = [ op |-> req.op, status |-> "ok",
                hallucinations |-> detect_numeric_hallucination(req.text,
                                                                req.computed_json) ]
    /\ UNCHANGED << eph, req, first, now >>


\* ------------------------------------------------------------------------
\* engine/aspects.py
\* ------------------------------------------------------------------------
\* engine/aspects.py has its own ASPECT_ANGLES, equal to the one of
\* natal_chart.py, entry by entry and in the same order.

\* _delta_angle on a circle of `circle` units: the signed difference folded
\* into (-circle/2, circle/2].
delta_angle_on(circle, angle_a, angle_b) ==
    LET diff == (angle_a - angle_b) % circle
    IN  IF diff <= circle \div 2 THEN diff ELSE diff - circle

delta_angle(angle_a, angle_b) == delta_angle_on(Circle, angle_a, angle_b)

\* dt = 0.1 days: positions are compared in tenths of a Scale unit, where
\* a body moves by its speed (Scale units per day) in dt.
engine_is_applying(first_body, second_body, target_angle) ==
    LET delta_now    == delta_angle_on(10 * Circle,
                                       10 * (second_body.longitude - target_angle),
                                       10 * first_body.longitude)
        lon_first_future  == 10 * first_body.longitude + first_body.speed
        lon_second_future == 10 * second_body.longitude + second_body.speed
        delta_future == delta_angle_on(10 * Circle,
                                       lon_second_future - 10 * target_angle,
                                       lon_first_future)
    IN  Abs(delta_future) < Abs(delta_now)

\* orb_limit = orbs.natal_orb_for(first.name)
PairOrbLimit(first_body, second_body) == natal_orb_for(first_body.name)

\* The aspects of one pair, in ASPECT_ANGLES order.
PairAspects(first_body, second_body) ==
    LET angle == Abs(delta_angle(second_body.longitude, first_body.longitude))
        hits  == SelectSeq(AspectTypes,
                   LAMBDA a : Abs(angle - ASPECT_ANGLES[a])
                                <= PairOrbLimit(first_body, second_body))
    IN  [ n \in 1..Len(hits) |->
            [ planet1  |-> first_body.name,
              planet2  |-> second_body.name,
              aspect   |-> hits[n],
              orb      |-> Abs(angle - ASPECT_ANGLES[hits[n]]),
              applying |-> engine_is_applying(first_body, second_body,
                                              ASPECT_ANGLES[hits[n]]) ] ]

detect_aspects(bodies) ==
    ConcatAll([ i \in 1..Len(bodies) |->
        ConcatAll([ k \in 1..(Len(bodies) - i) |->
            PairAspects(bodies[i], bodies[i + k]) ]) ])

\* Longest list of bodies handed to detect_aspects.
MaxBodies == 3

BodyNames == { "sun", "moon", "mars", "pluto" }

\* Daily speeds in Scale units (Sun 1.0 and Moon -0.5 as in the tests).
BodySpeed(name) ==
    CASE name = "sun"   -> 100
      [] name = "moon"  -> -50
      [] name = "mars"  -> 52
      [] name = "pluto" -> -2

LongitudeSamples == { 10 * Scale, 19 * Scale, 68 * Scale, 77 * Scale,
                      190 * Scale, 355 * Scale }

\* Lists of 2..n bodies with distinct names.
BodyLists(n) ==
    { bodies \in UNION { [ 1..k -> [ name : BodyNames, longitude : LongitudeSamples ] ] :
                          k \in 2..n } :
        \A i, j \in 1..Len(bodies) : i # j => bodies[i].name # bodies[j].name }

WithSpeeds(bodies) ==
    [ i \in 1..Len(bodies) |->
        [ name |-> bodies[i].name, longitude |-> bodies[i].longitude,
          speed |-> BodySpeed(bodies[i].name) ] ]

AspectRequests(n) ==
    { [ op |-> "detect_aspects", bodies |-> WithSpeeds(b) ] : b \in BodyLists(n) }

DetectAspects ==
    /\ out = Idle
    /\ req.op = "detect_aspects"
    /\ out' = [ op |-> req.op, status |-> "ok", result |-> detect_aspects(req.bodies) ]
    /\ UNCHANGED << eph, req, first, now >>

InitAspects ==
    /\ eph = [ swe |-> FALSE, engine_mode |-> "moseph", sky |-> NullSky ]
    /\ req \in AspectRequests(MaxBodies)
    /\ out = Idle
    /\ first = Idle
    /\ now = 0

NextAspects == DetectAspects

SpecAspects == InitAspects /\ [][NextAspects]_vars

\* ------------------------------------------------------------------------
\* validators/quality_gates.py: QualityReport, validate_houses
\* ------------------------------------------------------------------------
\* A QualityReport is a dict of two lists; a missing key reads as [].
EmptyReport == [ errors |-> <<>>, warnings |-> <<>> ]

add_error(report, code) == [ report EXCEPT !.errors = Append(@, code) ]

add_warning(report, code) == [ report EXCEPT !.warnings = Append(@, code) ]

\* return not self.get("errors")
passed(report) == Len(report.errors) = 0

\* Mutant: houses absent for want of a birth time count as an error.
validate_houses_AbsentIsError(cusps, birth_time_present, report) ==
    IF ~birth_time_present
    THEN IF cusps # None
         THEN add_error(report, "HOUSES_SHOULD_BE_NONE")
         ELSE add_error(report, "HOUSES_NOT_COMPUTED_NO_BIRTHTIME")
    ELSE IF cusps = None
    THEN add_error(report, "HOUSES_MISSING")
    ELSE IF Len(cusps[1]) # 12
    THEN add_error(report, "HOUSES_COUNT_INVALID")
    ELSE IF \E k \in 1..11 : cusps[1][k + 1].degree <= cusps[1][k].degree
    THEN add_error(report, "HOUSE_ORDERING")
    ELSE report

validate_houses(cusps, birth_time_present, report) ==
    IF ~birth_time_present
    THEN IF cusps # None
         THEN add_error(report, "HOUSES_SHOULD_BE_NONE")
         ELSE add_warning(report, "HOUSES_NOT_COMPUTED_NO_BIRTHTIME")
    ELSE IF cusps = None
    THEN add_error(report, "HOUSES_MISSING")
    ELSE IF Len(cusps[1]) # 12
    THEN add_error(report, "HOUSES_COUNT_INVALID")
    \* one HOUSE_ORDERING at the first cusp not above its predecessor
    ELSE IF \E k \in 1..11 : cusps[1][k + 1].degree <= cusps[1][k].degree
    THEN add_error(report, "HOUSE_ORDERING")
    ELSE report

\* Cusps handed to the gate: None, an empty list, the houses of a chart
\* (Placidus, and whole-sign with every degree 0), and a list one short.
CuspSamples ==
    LET swe_eph == [ swe |-> TRUE, engine_mode |-> "swieph",
                     sky |-> [ id |-> 0, houses |-> TRUE ] ]
        nat_eph == [ swe |-> FALSE, engine_mode |-> "moseph", sky |-> NullSky ]
        noon    == [ day |-> 0, hour |-> 12 ]
        rising  == [ i \in 1..12 |-> [ number |-> i, sign |-> "aries",
                                       degree |-> 2 * Scale * i, planets |-> <<>> ] ]
    IN  { None, Some(<<>>), Some(rising),
          Some(calculate_houses(swe_eph, noon, 50, "UTC")),
          Some(calculate_houses(nat_eph, noon, 50, "UTC")),
          Some(SubSeq(rising, 1, 11)) }

\* Reports the gate is handed: fresh, or holding an earlier finding.
ReportSamples ==
    { EmptyReport, add_warning(EmptyReport, "EARLIER"), add_error(EmptyReport, "EARLIER") }

HousesRequests ==
    { [ op |-> "validate_houses", cusps |-> c, birth_time_present |-> b, report |-> r ] :
        c \in CuspSamples, b \in BOOLEAN, r \in ReportSamples }

ValidateHouses ==
    /\ out = Idle
    /\ req.op = "validate_houses"
    /\ out' = [ op |-> req.op, status |-> "ok",
                report |-> validate_houses(req.cusps, req.birth_time_present, req.report) ]
    /\ UNCHANGED << eph, req, first, now >>

\* ------------------------------------------------------------------------
\* engine/ephemeris_engine.py, provenance.py
\* ------------------------------------------------------------------------
\* The file system is an external collaborator: one directory, "/ephe",
\* which is absent (None) or holds a list of files (in listing order).  A
\* file is [name, readable, content]; reading an unreadable file raises
\* OSError.
FileNames == { "sepl_18.se1", "semo_18.se1", "seas_18.se1", "readme.txt" }

\* EPHE_PATTERNS = ("sepl*.se*", "sem*.se*", "seas*.se*", "semo*.se*")
EPHE_PATTERNS == << "sepl*.se*", "sem*.se*", "seas*.se*", "semo*.se*" >>

\* fnmatch of the names above against a pattern.
GlobMatches(name, pattern) ==
    CASE name = "sepl_18.se1" -> pattern = "sepl*.se*"
      [] name = "semo_18.se1" -> pattern \in { "sem*.se*", "semo*.se*" }
      [] name = "seas_18.se1" -> pattern = "seas*.se*"
      [] OTHER                -> FALSE

\* hashlib.sha256(content).hexdigest(): 64 hex digits, whatever the content.
Sha256(content) == << "sha256", content >>

DataDir == "/ephe"

isdir(disk, path) == path = DataDir /\ disk # None

\* glob.glob(os.path.join(path, pattern))
glob(disk, path, pattern) ==
    SelectSeq(disk[1], LAMBDA f : GlobMatches(f.name, pattern))

\* a or b or c over Optional strings: the first that is neither None nor "".
Truthy(s) == s # None /\ s[1] # ""

FirstTruthy(a, b, c) ==
    IF Truthy(a) THEN a ELSE IF Truthy(b) THEN b ELSE IF Truthy(c) THEN c ELSE None

\* list(_hash_ephemeris_files(path)): the records of every match of every
\* pattern, pattern by pattern; raised when a matched file cannot be read.
hash_ephemeris_files(disk, path) ==
    LET matched == ConcatAll([ p \in 1..Len(EPHE_PATTERNS) |->
                                 glob(disk, path, EPHE_PATTERNS[p]) ])
    IN  IF \E k \in 1..Len(matched) : ~matched[k].readable
        THEN [ raised |-> TRUE, files |-> <<>> ]
        ELSE [ raised |-> FALSE,
               files  |-> [ k \in 1..Len(matched) |->
                            [ path   |-> << path, matched[k].name >>,
                              sha256 |-> Sha256(matched[k].content),
                              size   |-> Len(matched[k].content) ] ] ]

\* flags_text = "SWIEPH|SPEED", set after the if, whatever the mode.
ConfiguredFlagsText(engine_mode) == "SWIEPH|SPEED"

\* EphemerisEngine.__init__ and _configure.
EphemerisEngine(ephe_path, env, disk) ==
    LET path  == FirstTruthy(ephe_path, env.SWISSEPH_EPHE_PATH, env.SE_EPHE_PATH)
        found == path # None /\ isdir(disk, path[1])
        hashed == IF found THEN hash_ephemeris_files(disk, path[1])
                  ELSE [ raised |-> FALSE, files |-> <<>> ]
        engine_mode == IF found THEN "swisseph_swieph" ELSE "swisseph_moseph"
    IN  IF hashed.raised
        THEN [ op |-> "EphemerisEngine", status |-> "raised", error |-> "OSError" ]
        ELSE [ op              |-> "EphemerisEngine",
               status          |-> "ok",
               ephe_path       |-> path,
               engine_mode     |-> engine_mode,
               flags_text      |-> ConfiguredFlagsText(engine_mode),
               ephemeris_files |-> hashed.files ]

build_provenance(engine, jd_ut, timezone_name, lat, lon) ==
    [ op               |-> "build_provenance",
      status           |-> "ok",
      ephemeris_engine |-> engine.engine_mode,
      ephemeris_files  |-> engine.ephemeris_files,
      swe              |-> [ flags |-> engine.flags_text, house_system |-> "P",
                             ayanamsa |-> None ],
      time             |-> [ timezone |-> timezone_name, jd_ut |-> jd_ut ],
      location         |-> [ coords |-> [ lat |-> lat, lon |-> lon ],
                             coords_source |-> "user", geocoder |-> None ] ]

\* Most files in the data directory.
MaxFiles == 2

FileContents == { <<>>, << "d" >> }

\* Listings of at most n files with distinct names.
Listings(n) ==
    { l \in UNION { [ 1..k -> [ name : FileNames, readable : BOOLEAN,
                                content : FileContents ] ] : k \in 0..n } :
        \A i, j \in 1..Len(l) : i # j => l[i].name # l[j].name }

Disks(n) == { None } \cup { Some(l) : l \in Listings(n) }

EnginePaths == { None, Some(""), Some(DataDir), Some("/missing") }

EngineEnvs ==
    [ SWISSEPH_EPHE_PATH : { None, Some(DataDir) }, SE_EPHE_PATH : { None, Some(DataDir) } ]

EngineRequests(n) ==
    { [ op |-> "EphemerisEngine", ephe_path |-> p, env |-> e, disk |-> d ] :
        p \in EnginePaths, e \in EngineEnvs, d \in Disks(n) }

\* engine = EphemerisEngine(path); `first` keeps the engine built.
ConstructEngine ==
    /\ out = Idle
    /\ req.op = "EphemerisEngine"
    /\ out' = EphemerisEngine(req.ephe_path, req.env, req.disk)
    /\ first' = out'
    /\ UNCHANGED << eph, req, now >>

\* build_provenance(engine, jd, "UTC", lat, lon) on the engine built.
BuildProvenance ==
    /\ out.op = "EphemerisEngine"
    /\ out.status = "ok"
    /\ \E lat \in { 0, 50 } :
          out' = build_provenance(first, 2451545, "UTC", lat, 0)
    /\ UNCHANGED << eph, req, first, now >>

InitEngine ==
    /\ eph = [ swe |-> FALSE, engine_mode |-> "moseph", sky |-> NullSky ]
    /\ req \in EngineRequests(MaxFiles)
    /\ out = Idle
    /\ first = Idle
    /\ now = 0

NextEngine == ConstructEngine \/ BuildProvenance

SpecEngine == InitEngine /\ [][NextEngine]_vars

\* ------------------------------------------------------------------------
\* backend/services/lunar/engine.py and the offline swisseph stub
\* (src/swisseph.py).  Instants are whole hours; a Julian Day is kept in
\* hours (24 units per day) and a lunar longitude in LunarUnit units per
\* degree, so that a mean motion per day times a whole number of hours is an
\* integer.
\* ------------------------------------------------------------------------

\* Ten-thousandths of a degree.
LunarScale == 10000

HoursPerDay == 24

LunarUnit == HoursPerDay * LunarScale

LunarCircle == 360 * LunarUnit

\* (a * n) % m without leaving the machine integers, for 0 <= a < m.
RECURSIVE MulModNat(_, _, _)
MulModNat(a, n, m) ==
    IF n = 0 THEN 0
    ELSE LET half == MulModNat(a, n \div 2, m)
         IN  (((2 * half) % m) + (IF n % 2 = 1 THEN a ELSE 0)) % m

MulMod(a, n, m) == MulModNat(a % m, n % m, m)

\* Julian Day 2451544.5 (2000-01-01T00:00 UT), the day numbers' origin.
JdOfDayZero == 58837068

\* J2000.0 = JD 2451545.0
J2000 == 2451545 * HoursPerDay

\* date(2000, 1, 1).toordinal()
OrdinalOfDayZero == 730120

\* jd_ut < 2_000_000
PlausibleJdFloor == 2000000 * HoursPerDay

\* Lengths of the months of the year 2000.
MonthLengths == << 31, 29, 31, 30, 31, 30, 31, 31, 30, 31, 30, 31 >>

\* Day number of the first of month m of 2000.
RECURSIVE FirstOfMonth(_)
FirstOfMonth(m) == IF m <= 1 THEN 0 ELSE FirstOfMonth(m - 1) + MonthLengths[m - 1]

\* pytz utcoffset of the zone at local noon of the day, in hours.
UtcOffset(tz, day) ==
    CASE tz = "UTC"                -> 0
      [] tz = "Europe/Moscow"      -> 3
      [] tz = "Pacific/Kiritimati" -> 14
      [] tz = "America/New_York"   -> IF day >= 92 /\ day < 302 THEN 0 - 4 ELSE 0 - 5

\* _local_noon_utc: local noon of the date as a UTC [day, hour].
local_noon_utc(target_date, tz) ==
    LET hours == target_date * HoursPerDay + 12 - UtcOffset(tz, target_date)
    IN  [ day |-> hours \div HoursPerDay, hour |-> hours % HoursPerDay ]

\* _fallback_julday
fallback_julday(day, ut) == JdOfDayZero + day * HoursPerDay + ut

\* swe.julday(year, month, day, ut) of the library in use: the stub's and the
\* real library's Julian Day ("jd"), a library whose julday is a day ordinal
\* ("ordinal", the case the code's jd < 2_000_000 branch names), one that
\* takes no hour ("date_only": TypeError, then julday(y, m, d)), one that
\* raises ("raises": _fallback_julday).
swe_julday(kind, day, ut) ==
    CASE kind = "jd"        -> JdOfDayZero + day * HoursPerDay + ut
      [] kind = "ordinal"   -> (OrdinalOfDayZero + day) * HoursPerDay + ut
      [] kind = "date_only" -> JdOfDayZero + day * HoursPerDay
      [] kind = "raises"    -> fallback_julday(day, ut)

\* _fallback_longitude, the base in LunarScale units, the motion per day in
\* LunarScale units.
fallback_longitude(hours_since_j2000, base_longitude, mean_motion) ==
    (HoursPerDay * base_longitude
       + MulMod(mean_motion, hours_since_j2000, LunarCircle)) % LunarCircle

\* The stub before its mean motions: every body advanced 0.1 degree a day.
stub_calc_ut_Static(jd_ut, body) ==
    (MulMod(LunarScale \div 10, jd_ut, LunarCircle) + body * 3 * LunarUnit) % LunarCircle

\* swisseph.calc_ut(jd, body, flags)[0][0]: SUN = 0, MOON = 1.
stub_calc_ut(jd_ut, body) ==
    IF body = 0
    THEN fallback_longitude(jd_ut - J2000, 2804600, 9856)
    ELSE fallback_longitude(jd_ut - J2000, 2183160, 131764)

\* _resolve_ephe_path()
resolve_ephe_path(env) ==
    FirstTruthy(env.SWISSEPH_EPHE_PATH, env.SWISSEPH_PATH, env.SE_EPHE_PATH)

\* list(_hash_ephemeris_files(path)) of the lunar engine: path and sha256.
lunar_hash_ephemeris_files(disk, path) ==
    LET matched == ConcatAll([ p \in 1..Len(EPHE_PATTERNS) |->
                                 glob(disk, path, EPHE_PATTERNS[p]) ])
    IN  IF \E k \in 1..Len(matched) : ~matched[k].readable
        THEN [ raised |-> TRUE, files |-> <<>> ]
        ELSE [ raised |-> FALSE,
               files  |-> [ k \in 1..Len(matched) |->
                            [ path   |-> << path, matched[k].name >>,
                              sha256 |-> Sha256(matched[k].content) ] ] ]

\* _phase_key
phase_key(angle) ==
    CASE 2 * angle < 45 * LunarUnit \/ 2 * angle >= 675 * LunarUnit -> "new_moon"
      [] 2 * angle < 135 * LunarUnit -> "waxing_crescent"
      [] 2 * angle < 225 * LunarUnit -> "first_quarter"
      [] 2 * angle < 315 * LunarUnit -> "waxing_gibbous"
      [] 2 * angle < 405 * LunarUnit -> "full_moon"
      [] 2 * angle < 495 * LunarUnit -> "waning_gibbous"
      [] 2 * angle < 585 * LunarUnit -> "last_quarter"
      [] OTHER                       -> "waning_crescent"

\* _moon_sign
lunar_moon_sign(longitude) == SIGNS[((longitude \div (30 * LunarUnit)) % 12) + 1]

\* 360 / SYNODIC_MONTH degrees of phase to a day of the moon's age.
PhasePerLunarDay == 2925780

\* compute_lunar(date_iso, tz) with the library `swe` (how its julday and its
\* calc_ut behave), the environment and the data directory.
compute_lunar(target_date, tz, swe, env, disk) ==
    LET noon_utc  == local_noon_utc(target_date, tz)
        ut        == noon_utc.hour
        ephe_path == resolve_ephe_path(env)
        found     == ephe_path # None /\ isdir(disk, ephe_path[1])
        hashed    == IF found THEN lunar_hash_ephemeris_files(disk, ephe_path[1])
                     ELSE [ raised |-> FALSE, files |-> <<>> ]
        jd_first  == swe_julday(swe.julday, noon_utc.day, ut)
        jd_ut     == IF jd_first < PlausibleJdFloor
                     THEN fallback_julday(noon_utc.day, ut)
                     ELSE jd_first
        sun_lon   == IF swe.calc_ut = "ok"
                     THEN stub_calc_ut(jd_ut, 0)
                     ELSE fallback_longitude(jd_ut - J2000, 2804600, 9856)
        moon_lon  == IF swe.calc_ut = "ok"
                     THEN stub_calc_ut(jd_ut, 1)
                     ELSE fallback_longitude(jd_ut - J2000, 2183200, 131764)
        phase_angle == (moon_lon - sun_lon) % LunarCircle
        age_floor   == phase_angle \div PhasePerLunarDay
        lunar_day   == IF age_floor + 1 > 30 THEN 30
                       ELSE IF age_floor + 1 < 1 THEN 1 ELSE age_floor + 1
    IN  IF hashed.raised
        THEN [ op |-> "compute_lunar", status |-> "raised", error |-> "OSError",
               date |-> target_date, timezone |-> tz ]
        ELSE [ op             |-> "compute_lunar",
               status         |-> "ok",
               date           |-> target_date,
               timezone       |-> tz,
               jd_ut          |-> jd_ut,
               sun_longitude  |-> sun_lon,
               moon_longitude |-> moon_lon,
               phase_angle    |-> phase_angle,
               lunar_day      |-> lunar_day,
               moon_sign      |-> lunar_moon_sign(moon_lon),
               phase_key      |-> phase_key(phase_angle),
               provenance     |->
                 [ ephemeris_engine |-> IF found THEN "swisseph_swieph"
                                        ELSE "swisseph_moseph",
                   ephemeris_files  |-> hashed.files,
                   flags            |-> IF found THEN "SWIEPH|SPEED" ELSE "MOSEPH|SPEED",
                   jd_ut            |-> jd_ut,
                   timezone         |-> tz ] ]

\* Most months of 2000 whose first and fifth day are asked for.
MaxMonth == 4

LunarZones == { "UTC", "Europe/Moscow", "Pacific/Kiritimati", "America/New_York" }

\* 0763-09-17 and 0763-09-18: local noon UTC is JD 1999999.0 and 2000000.0.
EarlyDays == { 0 - 451546, 0 - 451545 }

\* The dates asked for in a zone: the 1st and the 5th of a month, and in UTC
\* the two early days as well (the other zones' tables do not reach them).
LunarDates(n, tz) ==
    { FirstOfMonth(m) + k : m \in 1..n, k \in { 0, 4 } }
      \cup (IF tz = "UTC" THEN EarlyDays ELSE {})

LunarLibraries ==
    [ julday : { "jd", "ordinal", "date_only", "raises" }, calc_ut : { "ok", "raises" } ]

LunarEnvs ==
    { [ SWISSEPH_EPHE_PATH |-> None, SWISSEPH_PATH |-> None, SE_EPHE_PATH |-> None ],
      [ SWISSEPH_EPHE_PATH |-> Some(""), SWISSEPH_PATH |-> Some(DataDir),
        SE_EPHE_PATH |-> None ] }

LunarDisks ==
    { None, Some(<<>>),
      Some(<< [ name |-> "semo_18.se1", readable |-> TRUE, content |-> << "d" >> ] >>),
      Some(<< [ name |-> "semo_18.se1", readable |-> FALSE, content |-> <<>> ] >>) }

LunarSetups ==
    { [ op |-> "compute_lunar", tz |-> z, swe |-> s, env |-> e, disk |-> d ] :
        z \in LunarZones, s \in LunarLibraries, e \in LunarEnvs, d \in LunarDisks }

\* result = compute_lunar(date, tz) in the zone of the setup; `first` keeps the result of the call
\* before.
ComputeLunar ==
    /\ req.op = "compute_lunar"
    /\ \E target_date \in LunarDates(MaxMonth, req.tz) :
          out' = compute_lunar(target_date, req.tz, req.swe, req.env, req.disk)
    /\ first' = out
    /\ UNCHANGED << eph, req, now >>

InitLunar ==
    /\ eph = [ swe |-> FALSE, engine_mode |-> "moseph", sky |-> NullSky ]
    /\ req \in LunarSetups
    /\ out = Idle
    /\ first = Idle
    /\ now = 0

NextLunar == ComputeLunar

SpecLunar == InitLunar /\ [][NextLunar]_vars

\* ------------------------------------------------------------------------
\* backend/services/astrology/engine/houses.py
\* ------------------------------------------------------------------------

\* swe.houses_ex(jd_ut, lat, lon, system)[0] of the library in use.  The
\* offline stub (src/swisseph.py) gives (i * 30 + jd_ut % 30) % 360 for
\* i = 0..11; the native library gives twelve cusps from the ascendant it
\* computes, here 30 degrees apart.
houses_ex(library, jd_ut) ==
    IF library.kind = "stub"
    THEN [ i \in 1..12 |-> ((i - 1) * 30 * Scale + (jd_ut % 30) * Scale) % Circle ]
    ELSE [ i \in 1..12 |-> (library.ascendant + (i - 1) * 30 * Scale) % Circle ]

\* HouseCalculator.calculate
HouseCalculator_calculate(library, jd_ut) ==
    IF jd_ut = None THEN None
    ELSE Some([ i \in 1..12 |-> [ number |-> i, degree |-> houses_ex(library, jd_ut[1])[i] ] ])

HouseLibraries ==
    { [ kind |-> "stub", ascendant |-> 0 ] }
      \cup { [ kind |-> "native", ascendant |-> a ] :
               a \in { 0, 15 * Scale, 100 * Scale, 345 * Scale } }

\* The cusps of a chart handed to the gate, and the same with two cusps
\* exchanged.
CalculatedCusps ==
    LET lists   == { HouseCalculator_calculate(l, j) :
                       l \in HouseLibraries, j \in { None, Some(2451545), Some(2451560) } }
        Swap(c) == [ c EXCEPT ![3] = c[4], ![4] = c[3] ]
    IN  lists \cup { Some(Swap(c[1])) : c \in lists \ { None } }

CalculatedHousesRequests ==
    { [ op |-> "validate_houses", cusps |-> c, birth_time_present |-> b, report |-> r ] :
        c \in CalculatedCusps, b \in BOOLEAN, r \in ReportSamples }

\* ------------------------------------------------------------------------
\* backend/services/astrology/llm_interpreter.py
\* ------------------------------------------------------------------------

\* not claim.get("rule_id"): the key is absent, or its value is "".
LacksRuleId(claim) == claim.rule_id = None \/ Len(claim.rule_id[1]) = 0

\* str(claim) of a claim dict, every character that is no digit, "." or "-"
\* written " ": {'rule_id': 'R2', 'text': '...'}.
ClaimStr(claim) ==
    << " " >> \o (IF claim.rule_id = None THEN <<>> ELSE claim.rule_id[1] \o << " " >>)
              \o claim.text \o << " " >>

\* str(llm_output): {'claims': [ ... ]}, or {} without the key.
OutputStr(llm_output) ==
    IF llm_output.claims = None THEN << " " >>
    ELSE << " " >>
           \o ConcatAll([ k \in 1..Len(llm_output.claims[1]) |->
                            ClaimStr(llm_output.claims[1][k]) ])
           \o << " " >>

\* enforce_llm_output_claims
RECURSIVE enforce_claims_from(_, _, _)
enforce_claims_from(claims, k, report) ==
    IF k > Len(claims) THEN report
    ELSE enforce_claims_from(claims, k + 1,
           IF LacksRuleId(claims[k]) THEN add_error(report, "MISSING_RULE_ID") ELSE report)

enforce_llm_output_claims(output, report) ==
    enforce_claims_from(IF output.claims = None THEN <<>> ELSE output.claims[1], 1, report)

\* interpret: the pair (llm_output, report).
interpret(llm_output, computed_json) ==
    LET checked        == enforce_llm_output_claims(llm_output, EmptyReport)
        hallucinations == detect_numeric_hallucination(OutputStr(llm_output), computed_json)
        report         == IF Len(hallucinations) > 0
                          THEN add_error(checked, "LLM_NUMERIC_HALLUCINATION")
                          ELSE checked
    IN  << llm_output, report >>

\* Most claims in an LLM output.
MaxClaims == 2

\* rule_id: absent, "", "R", "R2".
RuleIdSamples == { None, Some(<<>>), Some(<< " " >>), Some(<< " ", "2" >>) }

\* Claim texts: "", "x", "2", "5", "2.0".
ClaimTexts == { <<>>, << " " >>, << "2" >>, << "5" >>, << "2", ".", "0" >> }

LlmOutputs(n) ==
    { [ claims |-> None ] }
      \cup { [ claims |-> Some(c) ] :
               c \in UNION { [ 1..k -> [ rule_id : RuleIdSamples, text : ClaimTexts ] ] :
                             k \in 0..n } }

InterpretRequests(n) ==
    { [ op |-> "interpret", llm_output |-> o, computed_json |-> c ] :
        o \in LlmOutputs(n), c \in ComputedFacts }

Interpret ==
    /\ out = Idle
    /\ req.op = "interpret"
    /\ LET result == interpret(req.llm_output, req.computed_json)
       IN  out' = [ op |-> "interpret", status |-> "ok",
                    llm_output |-> result[1], report |-> result[2] ]
    /\ UNCHANGED << eph, req, first, now >>

InitQuality ==
    /\ eph = [ swe |-> FALSE, engine_mode |-> "moseph", sky |-> NullSky ]
    /\ req \in HallucinationRequests(MaxTextLen) \cup HousesRequests
                 \cup CalculatedHousesRequests \cup InterpretRequests(MaxClaims)
    /\ out = Idle
    /\ first = Idle
    /\ now = 0

NextQuality == DetectNumericHallucination \/ ValidateHouses \/ Interpret

SpecQuality == InitQuality /\ [][NextQuality]_vars

\* ------------------------------------------------------------------------
\* backend/middleware/rate_limit.py.  Times are whole seconds on the clock
\* `now` (datetime.utcnow()).  In the specifications of this section `eph` is
\* the object the calls are made on, `out` the answer to the last call and
\* `first` the log of the calls made so far.
\* ------------------------------------------------------------------------

\* RateLimitInfo(limit, window_seconds)
RateLimitInfo(limit, window_seconds) ==
    [ limit |-> limit, window_seconds |-> window_seconds, requests |-> <<>> ]

\* is_allowed keeping a request made exactly window_seconds ago.
is_allowed_KeepsBoundary(self, utcnow) ==
    LET window_start == utcnow - self.window_seconds
        kept == SelectSeq(self.requests, LAMBDA req_time : req_time >= window_start)
    IN  IF Len(kept) < self.limit
        THEN [ self |-> [ self EXCEPT !.requests = Append(kept, utcnow) ], result |-> TRUE ]
        ELSE [ self |-> [ self EXCEPT !.requests = kept ], result |-> FALSE ]

\* RateLimitInfo.is_allowed at the instant utcnow: the tracker after the call
\* and the value returned.
is_allowed(self, utcnow) ==
    LET window_start == utcnow - self.window_seconds
        kept == SelectSeq(self.requests, LAMBDA req_time : req_time > window_start)
    IN  IF Len(kept) < self.limit
        THEN [ self |-> [ self EXCEPT !.requests = Append(kept, utcnow) ], result |-> TRUE ]
        ELSE [ self |-> [ self EXCEPT !.requests = kept ], result |-> FALSE ]

\* RateLimitInfo.remaining
remaining(self) ==
    IF self.limit - Len(self.requests) > 0 THEN self.limit - Len(self.requests) ELSE 0

SeqMin(seq) == CHOOSE x \in { seq[k] : k \in 1..Len(seq) } : \A k \in 1..Len(seq) : x <= seq[k]

\* RateLimitInfo.reset_at at the instant utcnow
reset_at(self, utcnow) ==
    IF Len(self.requests) = 0 THEN utcnow ELSE SeqMin(self.requests) + self.window_seconds

\* Largest limit and longest window of a tracker, latest instant and most
\* calls made on it.
MaxLimit == 2

MaxWindow == 2

MaxClock == 4

MaxLimiterCalls == 5

LimiterSetups ==
    { [ op |-> "RateLimitInfo", limit |-> l, window_seconds |-> w ] :
        l \in 1..MaxLimit, w \in 1..MaxWindow }

\* limiter.is_allowed()
IsAllowed ==
    /\ req.op = "RateLimitInfo"
    /\ Len(first) < MaxLimiterCalls
    /\ LET call == is_allowed(eph, now)
       IN  /\ eph' = call.self
           /\ out' = [ op |-> "is_allowed", status |-> "ok", result |-> call.result ]
           /\ first' = Append(first, [ at |-> now, allowed |-> call.result ])
    /\ UNCHANGED << req, now >>

\* limiter.remaining() and limiter.reset_at()
Remaining ==
    /\ req.op = "RateLimitInfo"
    /\ out.op # "remaining"
    /\ out' = [ op |-> "remaining", status |-> "ok", result |-> remaining(eph),
                reset_at |-> reset_at(eph, now) ]
    /\ UNCHANGED << eph, req, first, now >>

\* The clock moves on a second.
LimiterTick ==
    /\ req.op = "RateLimitInfo"
    /\ now < MaxClock
    /\ now' = now + 1
    /\ UNCHANGED << eph, req, out, first >>

InitLimiter ==
    /\ req \in LimiterSetups
    /\ eph = RateLimitInfo(req.limit, req.window_seconds)
    /\ out = Idle
    /\ first = <<>>
    /\ now = 0

NextLimiter == IsAllowed \/ Remaining \/ LimiterTick

SpecLimiter == InitLimiter /\ [][NextLimiter]_vars

\* RateLimitMiddleware: `eph` is the middleware (per_user_limit, rate_limits
\* and the requests waiting in `await call_next(request)`), `first` the log of
\* every request received, `out` the last response sent (with the instants of
\* its quota check and of its sending, and the number of requests received
\* by then).

\* RateLimitInfo(self.per_user_limit): window_seconds: int = 60
DefaultWindowSeconds == 60

\* Seconds the clock moves on in one step.
TickSeconds == 30

ClientIps == { "10.0.0.1", "10.0.0.2" }

RequestPaths == { "/test", "/health", "/api/v1/lunar/today" }

\* path.startswith("/api/v1/lunar") or path == "/health"
SkipsRateLimit(path) == path \in { "/health", "/api/v1/lunar/today" }

\* Mutant: a new tracker on every lookup, the admissions recorded so far
\* being lost between the check of one request and the next.
rate_limiter_of_Fresh(self, client_ip) ==
    RateLimitInfo(self.per_user_limit, DefaultWindowSeconds)

\* self.rate_limits[client_ip] of the defaultdict: the tracker kept for the
\* client, made on first use.
rate_limiter_of(self, client_ip) ==
    IF self.rate_limits[client_ip] = None
    THEN RateLimitInfo(self.per_user_limit, DefaultWindowSeconds)
    ELSE self.rate_limits[client_ip][1]

\* RateLimitMiddleware(app, per_user_limit)
RateLimitMiddleware(per_user_limit) ==
    [ per_user_limit |-> per_user_limit,
      rate_limits    |-> [ c \in ClientIps |-> None ],
      pending        |-> {} ]

\* Most requests received and most steps of the clock.
MaxRequests == 3

MaxSteps == 2

MiddlewareSetups ==
    { [ op |-> "RateLimitMiddleware", per_user_limit |-> l ] : l \in 1..MaxLimit }

\* dispatch of a request to /health or under /api/v1/lunar, up to its
\* `return await call_next(request)`.
DispatchSkipped ==
    /\ req.op = "RateLimitMiddleware"
    /\ Len(first) < MaxRequests
    /\ \E client_ip \in ClientIps, path \in RequestPaths :
          /\ SkipsRateLimit(path)
          /\ first' = Append(first, [ client |-> client_ip, path |-> path, at |-> now,
                                      outcome |-> "skipped" ])
          /\ eph' = [ eph EXCEPT !.pending = @ \cup
                        { [ seq |-> Len(first) + 1, client |-> client_ip, path |-> path,
                            limited |-> FALSE, checked_at |-> now ] } ]
    /\ UNCHANGED << req, out, now >>

\* dispatch of any other request, up to its 429 response or to its
\* `response = await call_next(request)`.
DispatchLimited ==
    /\ req.op = "RateLimitMiddleware"
    /\ Len(first) < MaxRequests
    /\ \E client_ip \in ClientIps, path \in RequestPaths :
          /\ ~SkipsRateLimit(path)
          /\ LET call == is_allowed(rate_limiter_of(eph, client_ip), now)
                 kept == [ eph EXCEPT !.rate_limits[client_ip] = Some(call.self) ]
             IN  IF call.result
                 THEN /\ first' = Append(first, [ client |-> client_ip, path |-> path,
                                                  at |-> now, outcome |-> "admitted" ])
                      /\ eph' = [ kept EXCEPT !.pending = @ \cup
                                    { [ seq |-> Len(first) + 1, client |-> client_ip,
                                        path |-> path, limited |-> TRUE,
                                        checked_at |-> now ] } ]
                      /\ out' = out
                 ELSE /\ first' = Append(first, [ client |-> client_ip, path |-> path,
                                                  at |-> now, outcome |-> "denied" ])
                      /\ eph' = kept
                      /\ out' = [ op |-> "dispatch", status |-> "ok", status_code |-> 429,
                                  seq |-> Len(first) + 1, client |-> client_ip,
                                  path |-> path, checked_at |-> now,
                                  sent_at |-> now, received |-> Len(first) + 1,
                                  headers |-> None,
                                  content |-> Some([ detail    |-> "Rate limit exceeded",
                                                     remaining |-> 0,
                                                     reset_at  |-> reset_at(call.self, now) ]) ]
    /\ UNCHANGED << req, now >>

\* call_next returns to a waiting dispatch, which sets the headers (if the
\* request went through the limiter) and returns the response.
DispatchReturns ==
    /\ req.op = "RateLimitMiddleware"
    /\ \E p \in eph.pending :
          /\ eph' = [ eph EXCEPT !.pending = @ \ { p } ]
          /\ LET rate_limiter == rate_limiter_of(eph, p.client)
             IN  out' = [ op |-> "dispatch", status |-> "ok", status_code |-> 200,
                          seq |-> p.seq, client |-> p.client, path |-> p.path,
                          checked_at |-> p.checked_at,
                          sent_at |-> now, received |-> Len(first),
                          headers |->
                            IF p.limited
                            THEN Some([ Limit     |-> NatDigits(rate_limiter.limit),
                                        Remaining |-> NatDigits(remaining(rate_limiter)),
                                        Reset     |-> reset_at(rate_limiter, now) ])
                            ELSE None,
                          content |-> None ]
    /\ UNCHANGED << req, first, now >>

MiddlewareTick ==
    /\ req.op = "RateLimitMiddleware"
    /\ now < MaxSteps * TickSeconds
    /\ now' = now + TickSeconds
    /\ UNCHANGED << eph, req, out, first >>

InitMiddleware ==
    /\ req \in MiddlewareSetups
    /\ eph = RateLimitMiddleware(req.per_user_limit)
    /\ out = Idle
    /\ first = <<>>
    /\ now = 0

NextMiddleware == DispatchSkipped \/ DispatchLimited \/ DispatchReturns \/ MiddlewareTick

SpecMiddleware == InitMiddleware /\ [][NextMiddleware]_vars

\* ------------------------------------------------------------------------
\* transits.py: TransitCalculator.get_major_transit_dates
\* ------------------------------------------------------------------------

\* natal_points = [Planet.SUN, Planet.MOON, Planet.MERCURY, Planet.VENUS, Planet.MARS]
major_natal_points == << "sun", "moon", "mercury", "venus", "mars" >>

\* prev_aspects = {}: prev_aspects.get(key) is None for every key.
EmptyPrevAspects ==
    [ key \in { major_natal_points[i] : i \in 1..Len(major_natal_points) }
                \X ({ AspectTypes[i] : i \in 1..Len(AspectTypes) } \cup { "none" }) |-> None ]

\* The body of the loop over natal points, for the natal point number ni on
\* the day current_date.
MajorStep(acc, e, natal_planets, trans_planet, current_date, ni) ==
    LET trans_lon == calculate_planet_position(e, trans_planet,
                                               Midnight(current_date)).longitude
        found == SelectSeq(natal_planets, LAMBDA q : q.planet = major_natal_points[ni])
        aspect_info == find_transit_aspect(trans_planet, trans_lon, major_natal_points[ni],
                                           found[1].degree, current_date)
    IN  IF Len(found) = 0 THEN acc
        ELSE IF aspect_info = None
        THEN [ acc EXCEPT !.prev_aspects[<< major_natal_points[ni], "none" >>] = None ]
        ELSE LET key      == << major_natal_points[ni], aspect_info[1].aspect >>
                 prev_orb == acc.prev_aspects[key]
             IN  [ results |->
                     IF prev_orb # None /\ aspect_info[1].orb > prev_orb[1]
                     THEN Append(acc.results, [ date |-> current_date - 1,
                                                info |-> aspect_info[1] ])
                     ELSE acc.results,
                   prev_aspects |-> [ acc.prev_aspects EXCEPT ![key] = Some(aspect_info[1].orb) ] ]

\* for natal_planet_enum in natal_points, inside while current_date <= end_date
RECURSIVE MajorScan(_, _, _, _, _, _, _)
MajorScan(acc, e, natal_planets, trans_planet, current_date, end_date, ni) ==
    IF current_date > end_date THEN acc
    ELSE IF ni > Len(major_natal_points)
    THEN MajorScan(acc, e, natal_planets, trans_planet, current_date + 1, end_date, 1)
    ELSE LET a1 == MajorStep(acc, e, natal_planets, trans_planet, current_date, ni)
         IN  IF Len(a1.results) >= 0
             THEN MajorScan(a1, e, natal_planets, trans_planet, current_date, end_date, ni + 1)
             ELSE a1

get_major_transit_dates(e, natal_planets, start_date, end_date, trans_planet) ==
    MajorScan([ results |-> <<>>, prev_aspects |-> EmptyPrevAspects ],
              e, natal_planets, trans_planet, start_date, end_date, 1).results

\* Longest window, in days after the start date, searched for major
\* transits.
MaxMajorSpan == 6

\* Natal Moon degrees around the Sun's and Mars' first week (280-286 and
\* 355-359 degrees in the mean-motion ephemeris), the natal Sun apart.
MajorCharts ==
    { ChartOf(<< << "sun", 10000 >>, << "moon", m >> >>) :
        m \in { 28050, 28250, 28350, 28500, 13200, 10250, 35650, 35800, 20530, 19000 } }

MajorRequests(n) ==
    { [ op |-> "get_major_transit_dates", natal_planets |-> c, start_date |-> d,
        end_date |-> d + span, trans_planet |-> p ] :
        c \in MajorCharts, d \in { 0, 1 }, span \in { 0, n - 1, n }, p \in { "sun", "mars" } }

GetMajorTransitDates ==
    /\ out = Idle
    /\ req.op = "get_major_transit_dates"
    /\ out' = [ op |-> req.op, status |-> "ok",
                result |-> get_major_transit_dates(eph, req.natal_planets, req.start_date,
                                                   req.end_date, req.trans_planet) ]
    /\ UNCHANGED << eph, req, first, now >>

InitMajor ==
    /\ eph \in EphTransit
    /\ req \in MajorRequests(MaxMajorSpan)
    /\ out = Idle
    /\ first = Idle
    /\ now = 0

NextMajor == GetMajorTransitDates

SpecMajor == InitMajor /\ [][NextMajor]_vars

\* ------------------------------------------------------------------------
\* backend/services/astrology/natal_chart.py: assign_planets_to_houses
\* ------------------------------------------------------------------------

\* cusp_degrees = [h.degree + index(h.sign) * 30 for h in houses]
cusp_degrees(houses) ==
    [ i \in 1..Len(houses) |->
        houses[i].degree + (IndexOf(ZODIAC_SIGNS, houses[i].sign) - 1) * SignWidth ]

\* Mutant: the branch for the house that crosses 0 degrees is missing.
InHouseRange_NoWrap(cusps, i, degree) ==
    LET next_i == (i % 12) + 1
        start  == cusps[i]
        end    == cusps[next_i]
    IN  start <= degree /\ degree < end

\* The test of the inner loop for house i (1-based): next_i = (i + 1) % 12.
InHouseRange(cusps, i, degree) ==
    LET next_i == (i % 12) + 1
        start  == cusps[i]
        end    == cusps[next_i]
    IN  IF end < start
        THEN degree >= start \/ degree < end
        ELSE start <= degree /\ degree < end

\* The house at which the inner loop breaks, None when it runs out.
house_of(cusps, degree) ==
    LET hits == { i \in 1..12 : InHouseRange(cusps, i, degree) }
    IN  IF hits = {} THEN None
        ELSE Some(CHOOSE i \in hits : \A j \in hits : i <= j)

\* Both arguments are changed in place; the answer holds the two lists as
\* the caller sees them afterwards.
assign_planets_to_houses(planets, houses) ==
    LET cusps     == cusp_degrees(houses)
        placed(i) == SelectSeq(planets, LAMBDA p : house_of(cusps, p.degree) = Some(i))
    IN  [ planets |-> [ k \in 1..Len(planets) |->
                          LET h == house_of(cusps, planets[k].degree)
                          IN  IF h = None THEN planets[k]
                              ELSE [ planets[k] EXCEPT !.house = h ] ],
          houses  |-> [ i \in 1..Len(houses) |->
                          [ houses[i] EXCEPT !.planets =
                              @ \o [ k \in 1..Len(placed(i)) |-> placed(i)[k].planet ] ] ] ]

MaxPlaced == 2

\* Houses as calculate_houses builds them from 12 cusp longitudes.
HousesOfCusps(cusps) ==
    [ i \in 1..HouseCount |->
        LET zs == get_zodiac_sign(cusps[i])
        IN  [ number |-> i, sign |-> zs[1], degree |-> zs[2], planets |-> <<>> ] ]

HouseLists ==
    { HousesOfCusps([ i \in 1..12 |->
                        (asc + (i - 1) * SignWidth
                             + (IF i % 2 = 0 THEN skew ELSE 0)) % Circle ]) :
        asc  \in { 0, 15 * Scale, 90 * Scale, 200 * Scale, 345 * Scale, 35990 },
        skew \in { 0, 3 * Scale } }

PlacedDegrees == { 0, 1499, 15 * Scale, 45 * Scale, 90 * Scale, 17999, 345 * Scale, 35999 }

RECURSIVE PlanetLists(_)
PlanetLists(n) ==
    IF n = 0 THEN { <<>> }
    ELSE LET shorter == PlanetLists(n - 1)
         IN  shorter
               \cup { Append(ps, [ planet |-> Planet[n], sign |-> get_zodiac_sign(d)[1],
                                   degree |-> d, sign_degree |-> get_zodiac_sign(d)[2],
                                   retrograde |-> FALSE, house |-> None ]) :
                        ps \in { s \in shorter : Len(s) = n - 1 }, d \in PlacedDegrees }

AssignRequests(n) ==
    { [ op |-> "assign_planets_to_houses", planets |-> ps, houses |-> hs ] :
        ps \in PlanetLists(n) \ { <<>> }, hs \in HouseLists }

AssignPlanetsToHouses ==
    /\ out = Idle
    /\ req.op = "assign_planets_to_houses"
    /\ out' = [ op |-> req.op, status |-> "ok",
                assigned |-> assign_planets_to_houses(req.planets, req.houses) ]
    /\ UNCHANGED << eph, req, first, now >>

InitAssign ==
    /\ eph = [ swe |-> FALSE, engine_mode |-> "moseph", sky |-> NullSky ]
    /\ req \in AssignRequests(MaxPlaced)
    /\ out = Idle
    /\ first = Idle
    /\ now = 0

NextAssign == AssignPlanetsToHouses

SpecAssign == InitAssign /\ [][NextAssign]_vars

\* ------------------------------------------------------------------------
\* backend/services/astrology/natal_chart.py: calculate_houses, its log
\* ------------------------------------------------------------------------

\* The logger.warning records calculate_houses emits: one in the `except`
\* branch, none on the branch taken when the native library is absent.
calculate_houses_warnings(e, birth_dt, latitude, timezone) ==
    LET utc_dt == ToUtc(birth_dt, timezone)
        cusps  == swe_houses(e.sky, utc_dt, latitude)
    IN  IF ~e.swe
        THEN <<>>
        ELSE IF cusps = <<>>
        THEN << "House calculation failed" >>
        ELSE <<>>

HousesCalls ==
    { [ op |-> "calculate_houses", birth_dt |-> [ day |-> d, hour |-> h ],
        latitude |-> l.latitude, timezone |-> l.timezone ] :
        d \in 0..MaxDay, h \in { 0, 12 }, l \in Locations }

CalculateHouses ==
    /\ out = Idle
    /\ req.op = "calculate_houses"
    /\ out' = [ op       |-> req.op,
                status   |-> "ok",
                houses   |-> calculate_houses(eph, req.birth_dt, req.latitude, req.timezone),
                warnings |-> calculate_houses_warnings(eph, req.birth_dt, req.latitude,
                                                       req.timezone) ]
    /\ UNCHANGED << eph, req, first, now >>

InitHouses ==
    /\ eph \in EphConfigs
    /\ req \in HousesCalls
    /\ out = Idle
    /\ first = Idle
    /\ now = 0

NextHouses == CalculateHouses

SpecHouses == InitHouses /\ [][NextHouses]_vars

\* ------------------------------------------------------------------------
\* Phase and lunar day from the Sun-Moon phase angle, in the two services
\* ------------------------------------------------------------------------

\* get_lunar_info: lunar_day = max(1, min(30, int(phase_angle / 12.0) + 1)),
\* the angle in Scale units.
ephemeris_lunar_day(phase_angle) == Max2(1, Min2(30, (phase_angle \div (12 * Scale)) + 1))

\* compute_lunar: moon_age_days = phase_angle / 360 * SYNODIC_MONTH and
\* lunar_day = max(1, min(30, floor(moon_age_days) + 1)), the angle in
\* LunarUnit units.
engine_lunar_day(phase_angle) == Max2(1, Min2(30, (phase_angle \div PhasePerLunarDay) + 1))

\* Phase angles tried per degree.
PhaseResolution == 4

PhaseRequests(n) ==
    { [ op |-> "lunar_phase", step |-> q, per_degree |-> n ] : q \in 0..(360 * n - 1) }

\* SwissEphemeris.get_lunar_info from the phase angle on.
LunarInfoOfPhase ==
    /\ req.op = "lunar_phase"
    /\ out = Idle
    /\ LET phase_angle == (req.step * Scale) \div req.per_degree
       IN  out' = [ op |-> req.op, status |-> "ok",
                    phase     |-> LunarPhaseName(phase_angle),
                    lunar_day |-> ephemeris_lunar_day(phase_angle) ]
    /\ UNCHANGED << eph, req, first, now >>

\* compute_lunar from the phase angle on.
ComputeLunarOfPhase ==
    /\ req.op = "lunar_phase"
    /\ first = Idle
    /\ LET phase_angle == (req.step * LunarUnit) \div req.per_degree
       IN  first' = [ op |-> req.op,
                      phase_key |-> phase_key(phase_angle),
                      lunar_day |-> engine_lunar_day(phase_angle) ]
    /\ UNCHANGED << eph, req, out, now >>

InitPhase ==
    /\ eph = [ swe |-> FALSE, engine_mode |-> "moseph", sky |-> NullSky ]
    /\ req \in PhaseRequests(PhaseResolution)
    /\ out = Idle
    /\ first = Idle
    /\ now = 0

NextPhase == LunarInfoOfPhase \/ ComputeLunarOfPhase

SpecPhase == InitPhase /\ [][NextPhase]_vars

\* ------------------------------------------------------------------------
\* middleware/rate_limit.py: traffic on rate-limited paths only
\* ------------------------------------------------------------------------

\* The middleware under requests that all go through the limiter: dispatch
\* calls, the returns of their handlers and the clock, in every order.
NextAdmission == DispatchLimited \/ DispatchReturns \/ MiddlewareTick

SpecAdmission == InitMiddleware /\ [][NextAdmission]_vars

\* ------------------------------------------------------------------------
\* Claims
\* ------------------------------------------------------------------------
NatalDone == out.op = "calculate_natal_chart" /\ out.status = "ok"

C1_Witness_NoTime ==
    NatalDone /\ req.birth_time = None /\ out.houses = None /\ Len(out.planets) = 13

ServiceDone ==
    /\ out.op \in { "calculate_natal_chart", "generate_horoscope", "forecast_event" }
    /\ out.status = "ok"

\* C2: every response of calculate_natal_chart, generate_horoscope and
\* forecast_event carries exactly one provenance record, and the record
\* names the engine mode the ephemeris runs in.
C2_ProvenanceAttached ==
    ServiceDone =>
        /\ Len(out.provenance) = 1
        /\ out.provenance[1].engine_mode = eph.engine_mode

\* C3: every natal aspect has 0 <= orb <= the larger of the body-class natal
\* limits of its two bodies (10, 8, 7, 6 degrees).
C3_NatalOrbWithinBodyClass ==
    NatalDone =>
        \A i \in 1..Len(out.aspects) :
            /\ 0 <= out.aspects[i].orb
            /\ out.aspects[i].orb <= Max2(natal_orb_for(out.aspects[i].planet1),
                                          natal_orb_for(out.aspects[i].planet2))

TransitsDone == out.op = "calculate_transits" /\ out.status = "ok"

\* C4: every transit found has an orb within the transit limit of the class
\* of its transiting body (Mars 2.0, Jupiter/Saturn 1.5, outer 1.0).
C4_TransitOrbWithinBodyClass ==
    TransitsDone =>
        \A i \in 1..Len(out.result) :
            out.result[i].orb <= transit_orb_for(out.result[i].transiting_planet)

\* The instant a natal chart is computed for.
BirthInstant(request) ==
    [ day  |-> request.birth_date,
      hour |-> IF request.birth_time # None THEN request.birth_time[1] ELSE 12 ]

\* Daily speed of a body; the South Node moves with the North Node.
SpeedOf(e, planet, dt) ==
    calculate_planet_position(e, IF planet = "south_node" THEN "north_node" ELSE planet,
                              dt).speed

RetrogradeListDone ==
    /\ out.op \in { "generate_horoscope", "forecast_event" }
    /\ out.status = "ok"

RetrogradeListDate ==
    IF req.op = "forecast_event" THEN req.event_date ELSE req.target_date

ZodiacDone == out.op = "get_zodiac_sign" /\ out.status = "ok"

\* C6: for 0 <= L < 360 the sign returned is the one of index floor(L/30),
\* the degree within the sign lies in [0,30), and 30*index + degree = L; the
\* lunar engine's _moon_sign names the same sign.
C6_SignAndDegreeRecoverLongitude ==
    ZodiacDone =>
        \E index \in 0..11 :
            /\ SignWidth * index <= req.longitude
            /\ req.longitude < SignWidth * (index + 1)
            /\ out.sign = ZODIAC_SIGNS[index + 1]
            /\ 0 <= out.sign_degree
            /\ out.sign_degree < SignWidth
            /\ SignWidth * index + out.sign_degree = req.longitude
            /\ out.moon_sign = SIGNS[index + 1]

\* The last hundredth of a degree of Pisces.
C6_Witness ==
    /\ ZodiacDone
    /\ req.longitude = Circle - 1
    /\ out.sign = "pisces"
    /\ out.sign_degree = SignWidth - 1

FavorDone == out.op = "calculate_favorability" /\ out.status = "ok"

\* C7: the favorability score is an integer in [0,100], and the level is
\* excellent iff score >= 80, good iff 60 <= score < 80, neutral iff
\* 40 <= score < 60, challenging iff 20 <= score < 40, difficult iff
\* score < 20.
C7_ScoreBoundedLevelByThreshold ==
    FavorDone =>
        LET score == out.favorability_score
            level == out.favorability_level
        IN  /\ score \in 0..100
            /\ (level = "excellent") <=> (score >= 80)
            /\ (level = "good") <=> (60 <= score /\ score < 80)
            /\ (level = "neutral") <=> (40 <= score /\ score < 60)
            /\ (level = "challenging") <=> (20 <= score /\ score < 40)
            /\ (level = "difficult") <=> (score < 20)

\* Eleven harmonious transits push the raw score past 100.
C7_Witness ==
    /\ FavorDone
    /\ Len(out.positive_factors) >= 11
    /\ Len(out.risk_factors) = 0
    /\ out.favorability_score = 100
    /\ out.favorability_level = "excellent"

ForecastDone == out.op = "forecast_event" /\ out.status = "ok"

\* The score of a date, recomputed for the request at hand.
ScoreAt(d) == DayScore(eph, req.natal_chart, d, req.event_type).fav.score

\* C8: alternative dates are searched only when the score of the event date
\* is below 50; the list never holds the event date, holds no date twice,
\* holds at most 3 dates, each within 7 days of the event date and with a
\* recomputed score >= 60, in non-increasing order of score.
C8_AlternativeDates ==
    ForecastDone =>
        /\ (out.alternative_dates # None) <=> (out.favorability_score < 50)
        /\ out.alternative_dates # None =>
              LET alts == out.alternative_dates[1]
              IN  /\ Len(alts) <= 3
                  /\ \A i \in 1..Len(alts) :
                        /\ alts[i] # req.event_date
                        /\ Abs(alts[i] - req.event_date) <= 7
                        /\ ScoreAt(alts[i]) >= 60
                  /\ \A i, j \in 1..Len(alts) :
                        i < j => /\ alts[i] # alts[j]
                                 /\ ScoreAt(alts[i]) >= ScoreAt(alts[j])

\* A later date with a higher score is listed before an earlier one.
C8_Witness ==
    /\ ForecastDone
    /\ out.favorability_score < 50
    /\ out.alternative_dates # None
    /\ Len(out.alternative_dates[1]) >= 2
    /\ out.alternative_dates[1][1] > out.alternative_dates[1][2]
    /\ ScoreAt(out.alternative_dates[1][1]) > ScoreAt(out.alternative_dates[1][2])

RangeHits ==
    UNION { { DayHits(eph, req.natal_planets, d)[n] :
                n \in 1..Len(DayHits(eph, req.natal_planets, d)) } :
            d \in req.start_date..req.end_date }

\* The orbs a triple has on the days of the searched range.
TripleOrbs(t) ==
    { h.orb : h \in { x \in RangeHits : /\ x.transiting_planet = t.transiting_planet
                                        /\ x.natal_planet = t.natal_planet
                                        /\ x.aspect = t.aspect } }

\* C10: a transit search emits at most one entry per (transiting body,
\* natal body, aspect) triple, and the entry's exact_date and orb are those
\* of the day of the range on which the triple's orb is minimal.
C10_OnePerTripleAtMinimumOrb ==
    TransitsDone =>
        /\ \A i, j \in 1..Len(out.result) :
              i < j => ~( /\ out.result[i].transiting_planet = out.result[j].transiting_planet
                          /\ out.result[i].natal_planet = out.result[j].natal_planet
                          /\ out.result[i].aspect = out.result[j].aspect )
        /\ \A i \in 1..Len(out.result) :
              \A o \in TripleOrbs(out.result[i]) : out.result[i].orb <= o

HallucinationDone == out.op = "detect_numeric_hallucination" /\ out.status = "ok"

\* The number a numeric literal denotes, in thousandths.
RECURSIVE DigitsValue(_)
DigitsValue(digits) ==
    IF Len(digits) = 0 THEN 0
    ELSE 10 * DigitsValue(SubSeq(digits, 1, Len(digits) - 1))
         + DigitValue(digits[Len(digits)])

LiteralValue(literal) ==
    LET neg  == literal[1] = "-"
        body == IF neg THEN Tail(literal) ELSE literal
        dot  == { k \in 1..Len(body) : body[k] = "." }
        whole == IF dot = {} THEN body
                 ELSE SubSeq(body, 1, (CHOOSE k \in dot : TRUE) - 1)
        frac  == IF dot = {} THEN <<>>
                 ELSE SubSeq(body, (CHOOSE k \in dot : TRUE) + 1, Len(body))
        \* at most three decimals are looked at
        frac3 == SubSeq(frac \o << "0", "0", "0" >>, 1, 3)
        mag   == 1000 * DigitsValue(whole) + DigitsValue(frac3)
    IN  IF neg THEN 0 - mag ELSE mag

\* The numbers among the computed facts, in thousandths.
RECURSIVE FactValues(_)
FactValues(data) ==
    IF data.t \in { "dict", "list" }
    THEN UNION { FactValues(data.v[k]) : k \in 1..Len(data.v) }
    ELSE IF data.t = "int" THEN { 1000 * data.v }
    ELSE IF data.t = "float" THEN { 100 * data.v }
    ELSE {}

\* C11: detect_numeric_hallucination reports exactly the numeric literals of
\* the text whose number is not among the numbers of the computed facts; a
\* fact written verbatim or in a trivially different format ("2" for 2.0)
\* is not reported.
C11_ReportsExactlyForeignNumbers ==
    HallucinationDone =>
        out.hallucinations
          = SelectSeq(findall(req.text, 1),
              LAMBDA literal : LiteralValue(literal) \notin FactValues(req.computed_json))

AspectsDone == out.op = "detect_aspects" /\ out.status = "ok"

\* d = min(|lon1 - lon2|, 360 - |lon1 - lon2|)
PairSeparation(lon1, lon2) == Min2(Abs(lon1 - lon2), Circle - Abs(lon1 - lon2))

\* C12: detect_aspects emits an aspect of type T for a pair exactly when
\* |d - angle(T)| <= the natal orb limit of the pair's body class (the wider
\* of the two bodies' limits), with d the folded separation, and the orb
\* emitted is |d - angle(T)|; Sun at 10 and Moon at 68 give one sextile of
\* orb 2.0 and nothing else.
C12_AspectIffWithinPairOrb ==
    AspectsDone =>
        /\ \A i, j \in 1..Len(req.bodies) : \A a \in DOMAIN ASPECT_ANGLES :
              i < j =>
                LET d     == PairSeparation(req.bodies[i].longitude, req.bodies[j].longitude)
                    dev   == Abs(d - ASPECT_ANGLES[a])
                    limit == Max2(natal_orb_for(req.bodies[i].name),
                                  natal_orb_for(req.bodies[j].name))
                    found == { n \in 1..Len(out.result) :
                                 /\ out.result[n].planet1 = req.bodies[i].name
                                 /\ out.result[n].planet2 = req.bodies[j].name
                                 /\ out.result[n].aspect = a }
                IN  /\ (found # {}) <=> (dev <= limit)
                    /\ \A n \in found : out.result[n].orb = dev
        /\ ( /\ Len(req.bodies) = 2
             /\ req.bodies[1].name = "sun" /\ req.bodies[1].longitude = 10 * Scale
             /\ req.bodies[2].name = "moon" /\ req.bodies[2].longitude = 68 * Scale )
           => /\ Len(out.result) = 1
              /\ out.result[1].aspect = "sextile"
              /\ out.result[1].orb = 2 * Scale

HousesValidated == out.op = "validate_houses" /\ out.status = "ok"

\* C13: with the birth time absent, validate_houses adds the error
\* HOUSES_SHOULD_BE_NONE when cusps are given and only the warning
\* HOUSES_NOT_COMPUTED_NO_BIRTHTIME (no error: a passing report still
\* passes) when cusps are None; with the birth time present and cusps None
\* it adds the error HOUSES_MISSING.
C13_HousesIffBirthTimeGate ==
    HousesValidated =>
        /\ (~req.birth_time_present /\ req.cusps # None) =>
              /\ out.report.errors = Append(req.report.errors, "HOUSES_SHOULD_BE_NONE")
              /\ out.report.warnings = req.report.warnings
        /\ (~req.birth_time_present /\ req.cusps = None) =>
              /\ out.report.errors = req.report.errors
              /\ out.report.warnings
                   = Append(req.report.warnings, "HOUSES_NOT_COMPUTED_NO_BIRTHTIME")
              /\ passed(req.report) => passed(out.report)
        /\ (req.birth_time_present /\ req.cusps = None) =>
              /\ out.report.errors = Append(req.report.errors, "HOUSES_MISSING")
              /\ out.report.warnings = req.report.warnings

\* No birth time, no cusps, a fresh report: one warning, and it passes.
C13_Witness ==
    /\ HousesValidated
    /\ ~req.birth_time_present
    /\ req.cusps = None
    /\ req.report = EmptyReport
    /\ out.report.warnings = << "HOUSES_NOT_COMPUTED_NO_BIRTHTIME" >>
    /\ passed(out.report)

EngineBuilt == first.op = "EphemerisEngine" /\ first.status = "ok"

\* The path the engine is configured with, by argument or environment.
ConfiguredPath ==
    FirstTruthy(req.ephe_path, req.env.SWISSEPH_EPHE_PATH, req.env.SE_EPHE_PATH)

\* The files of the data directory that match one of the patterns.
MatchingFiles ==
    IF req.disk = None THEN {}
    ELSE { req.disk[1][k] : k \in { i \in 1..Len(req.disk[1]) :
             \E p \in 1..Len(EPHE_PATTERNS) :
                GlobMatches(req.disk[1][i].name, EPHE_PATTERNS[p]) } }

\* C14: an engine built with an existing data directory reports mode
\* swisseph_swieph, flags text SWIEPH|SPEED and a hashed record (non-empty
\* sha256) for each matching data file; an engine built with no data
\* directory reports swisseph_moseph, MOSEPH|SPEED and no files;
\* build_provenance copies mode, flags text and file list.
C14_EngineModeAndProvenance ==
    /\ (EngineBuilt /\ ConfiguredPath # None /\ isdir(req.disk, ConfiguredPath[1])) =>
          /\ first.engine_mode = "swisseph_swieph"
          /\ first.flags_text = "SWIEPH|SPEED"
          /\ \A f \in MatchingFiles :
                \E k \in 1..Len(first.ephemeris_files) :
                    /\ first.ephemeris_files[k].path = << ConfiguredPath[1], f.name >>
                    /\ first.ephemeris_files[k].sha256 # <<>>
    /\ (EngineBuilt /\ ConfiguredPath = None) =>
          /\ first.engine_mode = "swisseph_moseph"
          /\ first.flags_text = "MOSEPH|SPEED"
          /\ first.ephemeris_files = <<>>
    /\ out.op = "build_provenance" =>
          /\ out.ephemeris_engine = first.engine_mode
          /\ out.swe.flags = first.flags_text
          /\ out.ephemeris_files = first.ephemeris_files

EngineConstructed == out.op = "EphemerisEngine"

\* C15: building the engine never raises; with the data directory absent,
\* without a matching file, or with a matching file that cannot be read, the
\* engine is in mode swisseph_moseph; it reports swisseph_swieph only when
\* at least one data file was found and hashed.
C15_EngineDegradesToFallback ==
    EngineConstructed =>
        /\ out.status = "ok"
        /\ ( \/ ConfiguredPath = None
             \/ ~isdir(req.disk, ConfiguredPath[1])
             \/ MatchingFiles = {}
             \/ \E f \in MatchingFiles : ~f.readable )
           => out.engine_mode = "swisseph_moseph"
        /\ out.engine_mode = "swisseph_swieph" => Len(out.ephemeris_files) >= 1

LunarAnswered == req.op = "compute_lunar" /\ out.op = "compute_lunar"

\* The Julian Day the library gave for the call answered in `out`.
LibraryJulday ==
    LET noon_utc == local_noon_utc(out.date, out.timezone)
    IN  swe_julday(req.swe.julday, noon_utc.day, noon_utc.hour)

\* C16: a position calculation for an instant whose Julian Day falls below
\* the supported range (2 000 000) is rejected with an error and returns no
\* position computed from a replaced Julian Day.
C16_ImplausibleJdRejected ==
    (LunarAnswered /\ LibraryJulday < PlausibleJdFloor) => out.status = "raised"

\* C20: in every zone and with every library behaviour, the results of
\* compute_lunar for the 1st and for the 5th of one month differ in lunar_day
\* or in phase_angle.
C20_LunarOutputVaries ==
    ( /\ LunarAnswered /\ first.op = "compute_lunar"
      /\ first.status = "ok" /\ out.status = "ok"
      /\ first.timezone = out.timezone
      /\ \E m \in 1..MaxMonth :
            first.date = FirstOfMonth(m) /\ out.date = FirstOfMonth(m) + 4 )
    => (first.lunar_day # out.lunar_day \/ first.phase_angle # out.phase_angle)

C20_Witness ==
    /\ LunarAnswered /\ first.op = "compute_lunar"
    /\ first.status = "ok" /\ out.status = "ok"
    /\ first.timezone = "America/New_York" /\ out.timezone = "America/New_York"
    /\ first.date = FirstOfMonth(4) /\ out.date = FirstOfMonth(4) + 4
    /\ req.swe.calc_ut = "raises"
    /\ first.lunar_day # out.lunar_day

Interpreted == out.op = "interpret" /\ out.status = "ok"

\* The claims of the LLM output that carry no non-empty rule_id.
OffendingClaims ==
    LET claims == IF req.llm_output.claims = None THEN <<>> ELSE req.llm_output.claims[1]
    IN  { k \in 1..Len(claims) : LacksRuleId(claims[k]) }

\* Some number of the output text is not among the numbers of the facts.
ForeignNumberInOutput ==
    \E k \in 1..Len(findall(OutputStr(req.llm_output), 1)) :
        LiteralValue(findall(OutputStr(req.llm_output), 1)[k])
            \notin FactValues(req.computed_json)

CountOf(seq, code) == Cardinality({ k \in 1..Len(seq) : seq[k] = code })

\* C17: interpret returns the LLM output and a report that carries one
\* MISSING_RULE_ID per claim without a non-empty rule_id and
\* LLM_NUMERIC_HALLUCINATION exactly when a number of the output text is
\* absent from the computed facts; passed is false exactly when one of the
\* two happens.
C17_InterpretReport ==
    Interpreted =>
        /\ out.llm_output = req.llm_output
        /\ CountOf(out.report.errors, "MISSING_RULE_ID") = Cardinality(OffendingClaims)
        /\ (CountOf(out.report.errors, "LLM_NUMERIC_HALLUCINATION") = 1) = ForeignNumberInOutput
        /\ passed(out.report) = (OffendingClaims = {} /\ ~ForeignNumberInOutput)

LimiterCalled == req.op = "RateLimitInfo" /\ Len(first) > 0

\* The calls of the log's first n that were admitted at an instant t with
\* upto - window < t <= upto.
AdmittedWithin(n, upto, window) ==
    { k \in 1..n : first[k].allowed /\ first[k].at > upto - window /\ first[k].at <= upto }

\* C18: every is_allowed() call is admitted exactly when fewer than limit
\* calls were admitted in the window_seconds before it; the tracker holds the
\* admitted calls of the current window and nothing of a denied call; no
\* window of window_seconds ever holds more than limit admitted calls.
C18_AdmitsIffBelowLimit ==
    LimiterCalled =>
        /\ \A n \in 1..Len(first) :
              first[n].allowed
                = (Cardinality(AdmittedWithin(n - 1, first[n].at, req.window_seconds))
                     < req.limit)
        /\ LET last == first[Len(first)].at
               kept == AdmittedWithin(Len(first), last, req.window_seconds)
           IN  /\ Len(eph.requests) = Cardinality(kept)
               /\ \A t \in 0..MaxClock :
                     Cardinality({ k \in 1..Len(eph.requests) : eph.requests[k] = t })
                       = Cardinality({ k \in kept : first[k].at = t })
        /\ \A upto \in 0..(MaxClock + MaxWindow) :
              Cardinality(AdmittedWithin(Len(first), upto, req.window_seconds)) <= req.limit

\* The first limit calls were admitted, the next was denied, and a later one
\* was admitted again once the earlier had aged out.
C18_Witness ==
    /\ LimiterCalled
    /\ Len(first) >= req.limit + 2
    /\ \A k \in 1..req.limit : first[k].allowed /\ first[k].at = 0
    /\ ~first[req.limit + 1].allowed
    /\ first[Len(first)].allowed
    /\ first[Len(first)].at = req.window_seconds

Responded == req.op = "RateLimitMiddleware" /\ out.op = "dispatch"

\* The requests of the client among the log's first n that were admitted at
\* an instant t with upto - 60 < t <= upto.
ClientAdmitted(client_ip, n, upto) ==
    { k \in 1..n : /\ first[k].client = client_ip
                   /\ first[k].outcome = "admitted"
                   /\ first[k].at > upto - DefaultWindowSeconds
                   /\ first[k].at <= upto }

\* The instant of the client's last request that went through the limiter.
LastChecked(client_ip) ==
    LET mine == { k \in 1..Len(first) :
                    first[k].client = client_ip /\ first[k].outcome # "skipped" }
    IN  IF mine = {} THEN 0 ELSE first[CHOOSE k \in mine : \A j \in mine : j <= k].at

\* C19: per client, a request is answered 429 (remaining 0, a reset_at)
\* exactly when the client already has per_user_limit requests admitted in
\* the window, and is otherwise forwarded with X-RateLimit-Limit =
\* per_user_limit and X-RateLimit-Remaining = per_user_limit minus the
\* client's admitted requests in the window (the window of the quota check
\* or the window of the response); /health and /api/v1/lunar... are forwarded
\* and leave every quota alone; a client's quota depends on its own requests
\* only.
C19_PerClientQuota ==
    req.op = "RateLimitMiddleware" =>
        /\ \A n \in 1..Len(first) :
              /\ SkipsRateLimit(first[n].path) = (first[n].outcome = "skipped")
              /\ first[n].outcome # "skipped" =>
                    (first[n].outcome = "denied")
                      = (Cardinality(ClientAdmitted(first[n].client, n - 1, first[n].at))
                           >= req.per_user_limit)
        /\ \A c \in ClientIps :
              Len(rate_limiter_of(eph, c).requests)
                = Cardinality(ClientAdmitted(c, Len(first), LastChecked(c)))
        /\ Responded =>
              /\ out.status_code = 429 =>
                    /\ first[out.seq].outcome = "denied"
                    /\ out.content[1].remaining = 0
                    /\ out.content[1].reset_at > out.checked_at
              /\ out.status_code = 200 =>
                    /\ first[out.seq].outcome \in { "admitted", "skipped" }
                    /\ (out.headers = None) = (first[out.seq].outcome = "skipped")
              /\ out.headers # None =>
                    /\ DigitsValue(out.headers[1].Limit) = req.per_user_limit
                    /\ \/ DigitsValue(out.headers[1].Remaining)
                            = req.per_user_limit
                                - Cardinality(ClientAdmitted(out.client, out.seq, out.checked_at))
                       \/ DigitsValue(out.headers[1].Remaining)
                            = req.per_user_limit
                                - Cardinality(ClientAdmitted(out.client, out.received, out.sent_at))

\* The body of the request with the given name.
BodyNamed(name) == req.bodies[CHOOSE i \in 1..Len(req.bodies) : req.bodies[i].name = name]

\* The orb of the pair to the target angle, in tenths of a Scale unit, with
\* both bodies moved `steps` tenths of a day along their speeds.
ProjectedOrb(body_a, body_b, target_angle, steps) ==
    LET lon_a == 10 * body_a.longitude + steps * body_a.speed
        lon_b == 10 * body_b.longitude + steps * body_b.speed
        d     == Abs(delta_angle_on(10 * Circle, lon_b, lon_a))
    IN  Abs(d - 10 * target_angle)

\* C21: every aspect emitted by detect_aspects is flagged applying exactly
\* when its orb |d - angle|, recomputed with both bodies projected 0.1 day
\* forward, is strictly smaller than its current orb (so the flag does not
\* depend on which body comes first, and is false for equal speeds).
C21_ApplyingIffTightening ==
    AspectsDone =>
        \A k \in 1..Len(out.result) :
            out.result[k].applying
              = ( ProjectedOrb(BodyNamed(out.result[k].planet1), BodyNamed(out.result[k].planet2),
                               ASPECT_ANGLES[out.result[k].aspect], 1)
                  < ProjectedOrb(BodyNamed(out.result[k].planet1), BodyNamed(out.result[k].planet2),
                                 ASPECT_ANGLES[out.result[k].aspect], 0) )

MajorDone == out.op = "get_major_transit_dates" /\ out.status = "ok"

\* The natal degree of the body in the request's chart.
MajorNatalDegree(planet) ==
    req.natal_planets[CHOOSE i \in 1..Len(req.natal_planets) :
                         req.natal_planets[i].planet = planet].degree

\* The orb of the tracked body to the aspect of the natal body on the day.
MajorOrbOn(natal_planet, aspect, day) ==
    Abs(Separation(calculate_planet_position(eph, req.trans_planet, Midnight(day)).longitude,
                   MajorNatalDegree(natal_planet))
        - ASPECT_ANGLES[aspect])

\* C22: every (date, TransitInfo) emitted by get_major_transit_dates names a
\* day on which the orb of its (natal body, aspect) is not larger than the
\* day before and smaller than the day after; the TransitInfo carries that
\* day and its orb; and two emitted dates of the same (natal body, aspect)
\* are separated by a day on which the aspect is out of orb.
C22_MajorDatesAreLocalMinima ==
    MajorDone =>
        /\ \A k \in 1..Len(out.result) :
              LET r == out.result[k]
              IN  /\ MajorOrbOn(r.info.natal_planet, r.info.aspect, r.date)
                       <= MajorOrbOn(r.info.natal_planet, r.info.aspect, r.date - 1)
                  /\ MajorOrbOn(r.info.natal_planet, r.info.aspect, r.date)
                       < MajorOrbOn(r.info.natal_planet, r.info.aspect, r.date + 1)
                  /\ r.info.exact_date = r.date
                  /\ r.info.orb = MajorOrbOn(r.info.natal_planet, r.info.aspect, r.date)
        /\ \A j, k \in 1..Len(out.result) :
              ( /\ j # k
                /\ out.result[j].info.natal_planet = out.result[k].info.natal_planet
                /\ out.result[j].info.aspect = out.result[k].info.aspect
                /\ out.result[j].date <= out.result[k].date )
              => \E day \in out.result[j].date..out.result[k].date :
                    MajorOrbOn(out.result[j].info.natal_planet, out.result[j].info.aspect, day)
                      > TRANSIT_ORBS[out.result[j].info.aspect]

\* The way from one cusp to the next around the circle (the twelfth closes on
\* the first).
CuspGap(cusps, k) == (cusps[(k % Len(cusps)) + 1].degree - cusps[k].degree) % Circle

RECURSIVE CuspGapSum(_, _)
CuspGapSum(cusps, k) == IF k = 0 THEN 0 ELSE CuspGap(cusps, k) + CuspGapSum(cusps, k - 1)

\* Twelve cusps that go once around the circle, each ahead of the one before.
SequentialAroundCircle(cusps) ==
    /\ Len(cusps) = 12
    /\ \A k \in 1..12 : CuspGap(cusps, k) > 0
    /\ CuspGapSum(cusps, 12) = Circle

\* C23: with the birth time present and cusps given, validate_houses adds
\* HOUSES_COUNT_INVALID exactly when there are not 12 cusps, HOUSE_ORDERING
\* exactly when the 12 cusps are not sequential around the circle, and
\* nothing for 12 sequential cusps, wherever they cross 0/360.
C23_CuspsSequentialAroundCircle ==
    (HousesValidated /\ req.birth_time_present /\ req.cusps # None) =>
        /\ out.report.warnings = req.report.warnings
        /\ out.report.errors
             = IF Len(req.cusps[1]) # 12
               THEN Append(req.report.errors, "HOUSES_COUNT_INVALID")
               ELSE IF ~SequentialAroundCircle(req.cusps[1])
               THEN Append(req.report.errors, "HOUSE_ORDERING")
               ELSE req.report.errors

Assigned == out # Idle /\ out.op = "assign_planets_to_houses"

\* Houses i whose range, from cusp i forward around the circle to the next
\* cusp (house 12 closing on cusp 1), contains the longitude.
HousesContaining(houses, longitude) ==
    LET cusps == cusp_degrees(houses)
    IN  { i \in 1..12 :
            (longitude - cusps[i]) % Circle < (cusps[(i % 12) + 1] - cusps[i]) % Circle }

SequentialHouses(houses) ==
    SequentialAroundCircle([ i \in 1..Len(houses) |-> [ degree |-> cusp_degrees(houses)[i] ] ])

ListedIn(house, planet) == \E k \in 1..Len(house.planets) : house.planets[k] = planet

\* C25: for 12 houses with sequential cusps and any longitude,
\* assign_planets_to_houses gives the body the one house whose range
\* contains the longitude, the wrapping house included, and lists the body
\* in that house's planets and in no other.
C25_ExactlyOneContainingHouse ==
    (Assigned /\ SequentialHouses(req.houses)) =>
        \A k \in 1..Len(req.planets) :
            LET body == out.assigned.planets[k]
                own  == HousesContaining(req.houses, req.planets[k].degree)
            IN  /\ Cardinality(own) = 1
                /\ body.house # None
                /\ own = { body.house[1] }
                /\ \A i \in 1..12 :
                     ListedIn(out.assigned.houses[i], body.planet) <=> (i \in own)

\* A body in the house that wraps through 0 degrees, where that house is not
\* the twelfth.
C25_Witness ==
    /\ Assigned
    /\ SequentialHouses(req.houses)
    /\ \E k \in 1..Len(req.planets) :
         LET h == out.assigned.planets[k].house
             c == cusp_degrees(req.houses)
         IN  /\ h # None
             /\ h[1] # 12
             /\ c[h[1] + 1] < c[h[1]]
             /\ req.planets[k].degree < c[h[1] + 1]

\* C24: when a birth time is supplied, every body position in the response
\* of calculate_natal_chart carries a house number in 1..12, the house whose
\* cusp range contains the body's longitude, and that house lists the body.
C24_BodiesCarryTheirHouse ==
    (NatalDone /\ req.birth_time # None) =>
        /\ out.houses # None
        /\ \A k \in 1..Len(out.planets) :
             LET body == out.planets[k]
             IN  /\ body.house # None
                 /\ body.house[1] \in 1..12
                 /\ body.house[1] \in HousesContaining(out.houses[1], body.degree)
                 /\ ListedIn(out.houses[1][body.house[1]], body.planet)

HousesCalculated == out # Idle /\ out.op = "calculate_houses"

\* The ephemeris cannot produce cusps: the native library is absent, or its
\* houses call raises.
CuspsUnavailable ==
    \/ ~eph.swe
    \/ swe_houses(eph.sky, ToUtc(req.birth_dt, req.timezone), req.latitude) = <<>>

SunSignIndex ==
    (calculate_planet_position(eph, "sun", ToUtc(req.birth_dt, req.timezone)).longitude
       \div SignWidth) % 12

\* C26: when the ephemeris cannot produce cusps, calculate_houses returns
\* 12 whole-sign houses, house n having the sign (Sun's sign index + n - 1)
\* mod 12 at degree 0, and the degradation is flagged as a warning.
C26_WholeSignFallbackFlagged ==
    (HousesCalculated /\ CuspsUnavailable) =>
        /\ Len(out.houses) = 12
        /\ \A n \in 1..12 :
             /\ out.houses[n].number = n
             /\ out.houses[n].sign = ZODIAC_SIGNS[((SunSignIndex + n - 1) % 12) + 1]
             /\ out.houses[n].degree = 0
        /\ out.warnings # <<>>

\* Number of positions of a sequence that satisfy a test.
CountWhere(seq, Test(_)) == Cardinality({ k \in 1..Len(seq) : Test(seq[k]) })

\* Event types a retrograde planet weighs on, as the claim lists them.
AffectedEvents(planet) ==
    CASE planet = "mercury" -> { "contract", "interview", "exam" }
      [] planet = "venus"   -> { "wedding", "date" }
      [] planet = "mars"    -> { "surgery", "business" }
      [] OTHER              -> {}

\* C27: the score is clamp(50 + 5 * #(trine, sextile) - 5 * #(square,
\* opposition) - penalties + bonus, 0, 100); a retrograde Mercury, Venus or
\* Mars costs 15 when the event type is on its list and 5 otherwise, other
\* retrogrades, conjunctions and quincunxes cost nothing, and the bonus is 10
\* exactly when the lunar phase is favourable for the event type.
C27_ScoreIsClampedSum ==
    FavorDone =>
        LET harmonious == CountWhere(req.transits, LAMBDA t : t.aspect \in { "trine", "sextile" })
            hard       == CountWhere(req.transits, LAMBDA t : t.aspect \in { "square", "opposition" })
            heavy      == CountWhere(req.retrograde_planets,
                                     LAMBDA p : req.event_type \in AffectedEvents(p))
            light      == CountWhere(req.retrograde_planets,
                                     LAMBDA p : /\ p \in { "mercury", "venus", "mars" }
                                                /\ req.event_type \notin AffectedEvents(p))
            bonus      == IF req.event_type \in favorable_phases[req.lunar_phase]
                          THEN 10 ELSE 0
            raw        == 50 + 5 * harmonious - 5 * hard - 15 * heavy - 5 * light + bonus
        IN  out.favorability_score
              = (IF raw < 0 THEN 0 ELSE IF raw > 100 THEN 100 ELSE raw)

\* A scoring with a conjunction among the transits, a retrograde on the
\* event's list, one off it, a retrograde outer planet and the lunar bonus.
C27_Witness ==
    /\ FavorDone
    /\ \E k \in 1..Len(req.transits) : req.transits[k].aspect \in { "conjunction", "quincunx" }
    /\ \E k \in 1..Len(req.retrograde_planets) :
         req.event_type \in AffectedEvents(req.retrograde_planets[k])
    /\ \E k \in 1..Len(req.retrograde_planets) :
         /\ req.retrograde_planets[k] \in { "mercury", "venus", "mars" }
         /\ req.event_type \notin AffectedEvents(req.retrograde_planets[k])
    /\ \E k \in 1..Len(req.retrograde_planets) :
         req.retrograde_planets[k] \notin { "mercury", "venus", "mars" }
    /\ req.event_type \in favorable_phases[req.lunar_phase]
    /\ out.favorability_score \in 1..99

\* The (unordered pair, aspect type, orb) triples of a result list.
EmittedTriples(result) ==
    { << { result[n].planet1, result[n].planet2 }, result[n].aspect, result[n].orb >> :
        n \in 1..Len(result) }

\* The orderings of a list of bodies.
Orderings(bodies) ==
    { [ k \in 1..Len(bodies) |-> bodies[p[k]] ] :
        p \in { q \in [ 1..Len(bodies) -> 1..Len(bodies) ] :
                  \A i, j \in 1..Len(bodies) : i # j => q[i] # q[j] } }

\* C28: detect_aspects works on unordered pairs: the set of (unordered pair,
\* aspect type, orb) emitted is the same for every ordering of the input
\* list, and no unordered pair is reported twice for one aspect type.
C28_EmittedSetIgnoresOrder ==
    AspectsDone =>
        /\ \A other \in Orderings(req.bodies) :
             EmittedTriples(detect_aspects(other)) = EmittedTriples(out.result)
        /\ \A m, n \in 1..Len(out.result) :
             ( /\ { out.result[m].planet1, out.result[m].planet2 }
                    = { out.result[n].planet1, out.result[n].planet2 }
               /\ out.result[m].aspect = out.result[n].aspect ) => m = n

\* Instants at which a window can end: those of the requests so far, and now.
WindowEnds == { first[k].at : k \in 1..Len(first) } \cup { now }

\* C29: under every interleaving of dispatch calls, of their handlers'
\* returns and of the clock, the requests of one client that were forwarded
\* with admission instants inside any one window never outnumber
\* per_user_limit.
C29_NeverOverAdmitted ==
    req.op = "RateLimitMiddleware" =>
        \A c \in ClientIps : \A t \in WindowEnds :
            Cardinality(ClientAdmitted(c, Len(first), t)) <= req.per_user_limit

\* One client, limit reached with the handler still running, a request
\* turned away, and a later request admitted next to the running one.
C29_Witness ==
    /\ req.op = "RateLimitMiddleware"
    /\ Len(first) = 3
    /\ \A k \in 1..3 : first[k].client = first[1].client
    /\ first[1].outcome = "admitted"
    /\ first[2].outcome = "denied"
    /\ first[3].outcome = "admitted"
    /\ \E p, q \in eph.pending : p.seq = 1 /\ q.seq = 3

\* C30: for every Sun-Moon phase angle in [0, 360), get_lunar_info and
\* compute_lunar report the same phase key and the same lunar day, and that
\* lunar day is within 1..30.
C30_ServicesAgreeOnPhase ==
    (req.op = "lunar_phase" /\ out # Idle /\ first # Idle) =>
        /\ out.phase = first.phase_key
        /\ out.lunar_day = first.lunar_day
        /\ out.lunar_day \in 1..30

====
